---------------------------- MODULE Spec2Model ----------------------------
(***************************************************************************)
(* Model of the telephony <-> speech-model bridge.                         *)
(*                                                                         *)
(* The components are modelled each with its own specification; the        *)
(* variables of the other components stay at their initial value:          *)
(*   SpecVAD      AudioProcessor.process_incoming (audio_processor.py)     *)
(*   SpecQueue    OptimizedWebSocketHandler's producer / consumer tasks    *)
(*                around audio_queue (optimized_websocket.py)              *)
(*   SpecSession  NovaSonicStreamingSession (nova_sonic_streaming.py)      *)
(*   SpecWS       handle_websocket with SonicSession (websocket_service.py,*)
(*                bedrock_service.py)                                      *)
(*   SpecCap      the same with start events only, under fair scheduling   *)
(*   SpecRecv     the same with a model transport whose receive fails      *)
(*   SpecOrd      the same in a call with one start event, the media       *)
(*                events numbered                                          *)
(*   SpecOpt      OptimizedWebSocketHandler.handle with its                *)
(*                NovaSonicStreamingSession, under fair scheduling         *)
(*   SpecTrig     handle_websocket's start events with                     *)
(*                SonicSession.trigger_initial_response sent event by event*)
(*   SpecFraming  AudioProcessor.process_incoming and process_outgoing     *)
(*                with the bytes handed in and returned kept as offsets    *)
(***************************************************************************)
EXTENDS Integers, Sequences, FiniteSets, TLC

VARIABLES
    \* ---- AudioProcessor (audio_processor.py:89-110) ----
    speech_frames,      \* self.speech_frames
    silence_frames,     \* self.silence_frames
    is_speaking,        \* self.is_speaking
    input_buffer,       \* len(self.input_buffer), in bytes
    vadOut,             \* what the last process_incoming returned: "none" / "frame"
    framesProcessed,    \* history: full frames evaluated since construction
    onlySpeech,         \* history: every evaluated frame was above the threshold
    belowRun,           \* history: length of the current run of at-or-below frames
    aboveRun,           \* history: length of the current run of above-threshold frames
    runFromSpeaking,    \* history: that run started with is_speaking and silence_frames = 0
    inFramed            \* history, kept by SpecFraming only: bytes handed to
                        \*          process_incoming and cut off its buffer, the buffer
                        \*          its last call returned

vadVars == <<speech_frames, silence_frames, is_speaking, input_buffer, vadOut,
             framesProcessed, onlySpeech, belowRun, aboveRun, runFromSpeaking,
             inFramed>>

VARIABLES
    \* ---- OptimizedWebSocketHandler (optimized_websocket.py:25-52) ----
    audio_queue,        \* self.audio_queue: frames, oldest first; a frame is its number
    output_buffer,      \* len(self.audio_processor.output_buffer), in bytes
    framesOut,          \* frames process_outgoing has returned so far (the next is framesOut + 1)
    running,            \* self.running
    receiverAlive,      \* the _nova_receiver task has not finished
    senderPc,           \* _audio_sender: "get" (awaiting the queue), "send", "done"
    senderFrame,        \* the frame _audio_sender took and has not sent yet (0: none)
    sequence,           \* _audio_sender's sequence
    lastSent,           \* number of the last frame written to the telephony channel
    qOp,                \* history: what the last step did to the queue
    qBefore,            \* history: the queue before the last producer step
    outFramed           \* history, kept by SpecFraming only: as inFramed, for
                        \*          process_outgoing

qVars == <<audio_queue, output_buffer, framesOut, running, receiverAlive,
           senderPc, senderFrame, sequence, lastSent, qOp, qBefore, outFramed>>

VARIABLES
    \* ---- NovaSonicStreamingSession (nova_sonic_streaming.py:60-84) ----
    state,                       \* self.state, a StreamingState name
    stream,                      \* self.stream: 0 is None, else the transport's number
    streamsOpened,               \* transports opened so far
    streamsClosed,               \* the transports whose input stream was closed
    prompt_name,                 \* self.prompt_name (a uuid: a fresh number)
    current_audio_content_name,  \* self.current_audio_content_name (0 is None)
    receiving,                   \* self.receiving
    user_speaking,               \* self.user_speaking
    content_name,                \* _send_system_prompt's local content_name
    uuidNext,                    \* the next value uuid.uuid4() returns
    events,                      \* the events the model transport accepted, in order
    pc,                          \* where the caller's call in flight stands ("idle": none)
    call,                        \* history: the caller's current or last call, with the
                                 \* state, open block and transport it found at entry
    startTick,                   \* history: flips at every invocation of start()
    lastStartEntry,              \* history: self.state when start() was last invoked
    raised                       \* history: exceptions that reached a caller

sessVars == <<state, stream, streamsOpened, streamsClosed, prompt_name,
              current_audio_content_name, receiving, user_speaking, content_name,
              uuidNext, events, pc, call, startTick, lastStartEntry, raised>>

VARIABLES
    \* ---- handle_websocket (websocket_service.py:30-54) ----
    hwPc,                   \* where the inbound message loop stands
    hwPayload,              \* the media event in hand carries a payload
    ws,                     \* the telephony channel: "open" / "closed"
    call_sid,               \* call_sid is set
    audio_input_started,    \* audio_input_started
    receive_task,           \* receive_task: 0 is None, else the task's number
    cap_task,               \* cap_task: 0 is None, else the watchdog's number
    relay,                  \* the relay_model_audio tasks: position, pending cancel
    caps,                   \* the enforce_time_cap tasks: position, pending cancel
    hangups,                \* hangup requests made to the call-control service
    cleared,                \* history: the relay task the last clear message was written for (0: none)
    lateWrites,             \* history: a relay task wrote a message after its clear message
    interrupted,            \* history: an interruption has cancelled a relay task
    media,                  \* history: the media event in hand or just handled: it
                            \*          interrupted a relay task, what became of its payload
    turn,                   \* history: the completionEnd recv_loop is at or just handled:
                            \*          the prompt name before it, the events sent, how far it got
    \* ---- SonicSession (bedrock_service.py:56-63) ----
    sonic_active,               \* self.active
    sonic_stream,               \* self.stream: 0 is None, else the transport's number
    sonic_streamsOpened,        \* transports opened so far
    sonic_session_started,      \* self.session_started
    sonic_prompt_name,          \* self.prompt_name
    sonic_content_name,         \* self.current_audio_content_name (0 is None)
    sonic_uuidNext,             \* the next value uuid.uuid4() returns
    sonic_closeCall,            \* history: the close() of teardown: self.active and the
                                \*          open block it found, the events it sent, the
                                \*          transport whose input stream it closed (0: none)
    mediaRead,                  \* history, kept by SpecOrd only: media events the inbound
                                \*          loop has read so far (the n-th read is media event n)
    audioInputLast,             \* history, kept by SpecOrd only: the media event of the last audioInput event
                                \*          the model transport accepted (0: none yet)
    trig                        \* history, kept by SpecTrig only: the last call of
                                \*          trigger_initial_response: its position, its content
                                \*          name, the events the transport accepted from it

hwVars == <<hwPc, hwPayload, ws, call_sid, audio_input_started, receive_task,
            cap_task, relay, caps, hangups, cleared, lateWrites, interrupted,
            media, turn>>

sonicVars == <<sonic_active, sonic_stream, sonic_streamsOpened,
               sonic_session_started, sonic_prompt_name, sonic_content_name,
               sonic_uuidNext, sonic_closeCall>>

ordVars == <<mediaRead, audioInputLast, trig>>

wsVars == <<hwVars, sonicVars, ordVars>>

VARIABLES
    \* ---- OptimizedWebSocketHandler (optimized_websocket.py:25-52) ----
    optPc,                  \* where handle() stands
    opt_ws,                 \* the telephony channel: "open", "peer_closed", "closed"
    opt_inbox,              \* the events received on the channel and not read yet
    opt_arrived,            \* events received so far
    opt_startArrived,       \* the start event of the stream has been received
    opt_audio_started,      \* self.audio_started
    opt_nova_session,       \* self.nova_session is set
    opt_tasks,              \* len(self.tasks)
    opt_closeTried,         \* websocket.close() has been called on the channel
    opt_say,                \* history: the fallback message: "none", "sent", "refused"
    opt_startFailed,        \* history: nova_session.start() raised
    opt_fwd                 \* history: media frames handed to nova_session.send_audio

optVars == <<optPc, opt_ws, opt_inbox, opt_arrived, opt_startArrived,
             opt_audio_started, opt_nova_session, opt_tasks, opt_closeTried,
             opt_say, opt_startFailed, opt_fwd>>

vars == <<vadVars, qVars, sessVars, wsVars, optVars>>

\* What each component's steps leave alone.
notVad == <<qVars, sessVars, wsVars, optVars>>
notQueue == <<vadVars, sessVars, wsVars, optVars>>
notSession == <<vadVars, qVars, wsVars, optVars>>
notWs == <<vadVars, qVars, sessVars, optVars>>
notOpt == <<vadVars, qVars, wsVars>>

-----------------------------------------------------------------------------
(* Audio constants, audio_processor.py:14-26.  int(a / b) of two positive  *)
(* numbers is the floor of the quotient, a \div b.                         *)

SAMPLE_RATE == 8000
FRAME_DURATION_MS == 20
SAMPLES_PER_FRAME == (SAMPLE_RATE * FRAME_DURATION_MS) \div 1000
BYTES_PER_SAMPLE == 2
FRAME_SIZE_BYTES == SAMPLES_PER_FRAME * BYTES_PER_SAMPLE

\* A buffer returned by process_incoming / process_outgoing: its length, the
\* offset in the input of its first byte, and whether its bytes are those of
\* the input; NoFrame is None / b''.
NoFrame == [len |-> 0, from |-> 0, asInput |-> TRUE]

\* Nothing handed in yet.
NoFraming == [arrived |-> 0, taken |-> 0, buffered |-> 0, ret |-> NoFrame,
              prevEnd |-> 0, lastEnd |-> 0]

FrameCutWholeBuffer(buffered) == buffered

\* audio_processor.py:126-127 and 171-172: buffer[:FRAME_SIZE_BYTES] is cut off
\* a buffer that holds at least FRAME_SIZE_BYTES bytes.
FrameCut(buffered) == FRAME_SIZE_BYTES

\* VAD_THRESHOLD = 0.5; confidences are modelled in tenths, 0 .. 10.
VAD_THRESHOLD == 5
VAD_MIN_SPEECH_MS == 250
VAD_MIN_SILENCE_MS == 700
SPEECH_FRAMES_THRESHOLD == VAD_MIN_SPEECH_MS \div FRAME_DURATION_MS
SILENCE_FRAMES_THRESHOLD == VAD_MIN_SILENCE_MS \div FRAME_DURATION_MS

\* Bound: full frames evaluated by one detector.
MaxFrames == 50
\* Confidences fed to the detector (tenths): silence, exactly the threshold, speech.
Confidences == {0, 5, 9}
\* Sizes of the decoded chunks handed to process_incoming (bytes).
InChunkSizes == {160, 320}

-----------------------------------------------------------------------------
(* AudioProcessor *)

\* AudioProcessor.__init__, audio_processor.py:89-98.
AudioProcessorInit ==
    /\ speech_frames = 0
    /\ silence_frames = 0
    /\ is_speaking = FALSE
    /\ input_buffer = 0
    /\ vadOut = "none"
    /\ framesProcessed = 0
    /\ onlySpeech = TRUE
    /\ belowRun = 0
    /\ aboveRun = 0
    /\ runFromSpeaking = FALSE
    /\ inFramed = NoFraming

\* audio_processor.py:112-123: the chunk is buffered and no full frame is there yet.
ProcessIncomingShort(size) ==
    /\ input_buffer + size < FRAME_SIZE_BYTES
    /\ input_buffer' = input_buffer + size
    /\ vadOut' = "none"
    /\ UNCHANGED <<speech_frames, silence_frames, is_speaking,
                   framesProcessed, onlySpeech, belowRun, aboveRun, runFromSpeaking>>
    /\ UNCHANGED notVad

\* A variant that ends speech only when the silence counter exceeds the threshold.
SpeakingAfterStrict(conf) ==
    IF conf > VAD_THRESHOLD
    THEN IF speech_frames + 1 >= SPEECH_FRAMES_THRESHOLD THEN TRUE ELSE is_speaking
    ELSE IF silence_frames + 1 > SILENCE_FRAMES_THRESHOLD THEN FALSE ELSE is_speaking

SpeakingAfterNoHysteresis(conf) == conf > VAD_THRESHOLD

\* audio_processor.py:133-148: the speech state after a frame of confidence conf.
SpeakingAfter(conf) ==
    IF conf > VAD_THRESHOLD
    THEN IF speech_frames + 1 >= SPEECH_FRAMES_THRESHOLD THEN TRUE ELSE is_speaking
    ELSE IF silence_frames + 1 >= SILENCE_FRAMES_THRESHOLD THEN FALSE ELSE is_speaking

ForwardsFrameSpokeBefore(before, after) == before

\* audio_processor.py:151-155: the frame is returned if self.is_speaking, read
\* after the update of lines 133-148 (before: its value at entry).
ForwardsFrame(before, after) == after

\* audio_processor.py:112-161: one full frame is cut off the buffer and evaluated.
ProcessIncomingFrame(size, conf) ==
    /\ framesProcessed < MaxFrames
    /\ input_buffer + size >= FRAME_SIZE_BYTES
    /\ input_buffer' = input_buffer + size - FrameCut(input_buffer + size)
    /\ IF conf > VAD_THRESHOLD
       THEN /\ speech_frames' = speech_frames + 1
            /\ silence_frames' = 0
       ELSE /\ silence_frames' = silence_frames + 1
            /\ speech_frames' = 0
    /\ is_speaking' = SpeakingAfter(conf)
    /\ vadOut' = IF ForwardsFrame(is_speaking, is_speaking') THEN "frame" ELSE "none"
    /\ framesProcessed' = framesProcessed + 1
    /\ onlySpeech' = (onlySpeech /\ conf > VAD_THRESHOLD)
    /\ belowRun' = IF conf > VAD_THRESHOLD THEN 0 ELSE belowRun + 1
    /\ aboveRun' = IF conf > VAD_THRESHOLD THEN aboveRun + 1 ELSE 0
    /\ runFromSpeaking' =
         IF conf > VAD_THRESHOLD THEN FALSE
         ELSE IF belowRun = 0 THEN (is_speaking /\ silence_frames = 0)
         ELSE runFromSpeaking
    /\ UNCHANGED notVad

VadNext ==
    \/ \E size \in InChunkSizes : ProcessIncomingShort(size) /\ UNCHANGED inFramed
    \/ \E size \in InChunkSizes, conf \in Confidences :
          ProcessIncomingFrame(size, conf) /\ UNCHANGED inFramed

-----------------------------------------------------------------------------
(* OptimizedWebSocketHandler: the producer _nova_receiver and the consumer *)
(* _audio_sender around audio_queue.  SpecQueue starts where _handle_start *)
(* has spawned the tasks (optimized_websocket.py:134-141); the chunks that *)
(* nova_session.receive_audio() yields are the environment's.              *)

\* asyncio.Queue(maxsize=50), optimized_websocket.py:46.
QUEUE_MAXSIZE == 50

\* Bound: frames process_outgoing returns in one call's life.
MaxOutFrames == 52
\* Bound: whole frames left waiting in output_buffer.
MaxBufferedFrames == 1
\* Sizes of the chunks receive_audio yields (bytes).
OutChunkSizes == {160, 320, 640}

\* OptimizedWebSocketHandler.__init__, optimized_websocket.py:25-52.
HandlerInit ==
    /\ audio_queue = << >>
    /\ output_buffer = 0
    /\ framesOut = 0
    /\ running = TRUE
    /\ receiverAlive = TRUE
    /\ senderPc = "get"
    /\ senderFrame = 0
    /\ sequence = 0
    /\ lastSent = 0
    /\ qOp = "none"
    /\ qBefore = << >>
    /\ outFramed = NoFraming

\* optimized_websocket.py:237-247: put_nowait, and on QueueFull get_nowait
\* then put_nowait.  No await separates the three calls.
EnqueueDropNewest(q, frame) ==
    IF Len(q) < QUEUE_MAXSIZE THEN Append(q, frame) ELSE q

EnqueueUnbounded(q, frame) ==
    Append(q, frame)

Enqueue(q, frame) ==
    IF Len(q) < QUEUE_MAXSIZE
    THEN Append(q, frame)
    ELSE Append(Tail(q), frame)

\* optimized_websocket.py:230-247 with audio_processor.py:163-177: one chunk
\* of model audio goes through process_outgoing, and the frame it returns
\* (if any) is queued.
NovaReceiverChunk(size) ==
    /\ receiverAlive /\ running
    /\ framesOut < MaxOutFrames
    /\ output_buffer + size < (MaxBufferedFrames + 2) * FRAME_SIZE_BYTES
    /\ qBefore' = audio_queue
    /\ IF output_buffer + size >= FRAME_SIZE_BYTES
       THEN /\ output_buffer' = output_buffer + size - FrameCut(output_buffer + size)
            /\ framesOut' = framesOut + 1
            /\ audio_queue' = Enqueue(audio_queue, framesOut + 1)
            /\ qOp' = IF Len(audio_queue) < QUEUE_MAXSIZE THEN "put" ELSE "put_full"
       ELSE /\ output_buffer' = output_buffer + size
            /\ qOp' = "skip"
            /\ UNCHANGED <<framesOut, audio_queue>>
    /\ UNCHANGED <<running, receiverAlive, senderPc, senderFrame, sequence, lastSent>>
    /\ UNCHANGED notQueue

\* optimized_websocket.py:200-206: the sender takes the oldest frame.
AudioSenderGet ==
    /\ senderPc = "get" /\ running
    /\ audio_queue # << >>
    /\ senderFrame' = Head(audio_queue)
    /\ audio_queue' = Tail(audio_queue)
    /\ senderPc' = "send"
    /\ qOp' = "get"
    /\ UNCHANGED <<output_buffer, framesOut, running, receiverAlive, sequence,
                   lastSent, qBefore, outFramed>>
    /\ UNCHANGED notQueue

\* optimized_websocket.py:208-213, 254-287: the frame is written to the
\* telephony channel, then the sender sleeps one frame duration.
AudioSenderSend ==
    /\ senderPc = "send"
    /\ lastSent' = senderFrame
    /\ senderFrame' = 0
    /\ sequence' = sequence + 1
    /\ senderPc' = "get"
    /\ UNCHANGED <<audio_queue, output_buffer, framesOut, running, receiverAlive,
                   qOp, qBefore, outFramed>>
    /\ UNCHANGED notQueue

\* optimized_websocket.py:340-353: _cleanup stops the loops and cancels the tasks.
Cleanup ==
    /\ running
    /\ running' = FALSE
    /\ receiverAlive' = FALSE
    /\ senderPc' = "done"
    /\ UNCHANGED <<audio_queue, output_buffer, framesOut, senderFrame, sequence,
                   lastSent, qOp, qBefore, outFramed>>
    /\ UNCHANGED notQueue

QueueNext ==
    \/ \E size \in OutChunkSizes : NovaReceiverChunk(size) /\ UNCHANGED outFramed
    \/ AudioSenderGet
    \/ AudioSenderSend
    \/ Cleanup

-----------------------------------------------------------------------------
(* NovaSonicStreamingSession.  One caller issues start, send_audio,        *)
(* finish_user_turn and close one after the other, as the handler's reader *)
(* loop and _cleanup do; each await on the transport is a step of its own, *)
(* and the transport may refuse any open or send.  A second task may       *)
(* invoke start() while a call is in flight.                               *)

\* StreamingState, nova_sonic_streaming.py:40-47.
StreamingState == {"IDLE", "STARTING", "READY", "STREAMING", "CLOSING", "CLOSED"}

\* Bound: start() calls that get past the state check.
MaxStarts == 2

Ev(type, p, c, role, ctype, inter) ==
    [type |-> type, promptName |-> p, contentName |-> c,
     role |-> role, ctype |-> ctype, interactive |-> inter]

NoCall == [op |-> "none", entry |-> "IDLE", outcome |-> "returned", from |-> 0,
           fault |-> FALSE, block |-> 0, open |-> FALSE, speaking |-> FALSE]

\* NovaSonicStreamingSession.__init__, nova_sonic_streaming.py:60-84.
SessionInit ==
    /\ state = "IDLE"
    /\ stream = 0
    /\ streamsOpened = 0
    /\ streamsClosed = {}
    /\ prompt_name = 1
    /\ current_audio_content_name = 0
    /\ receiving = FALSE
    /\ user_speaking = FALSE
    /\ content_name = 0
    /\ uuidNext = 2
    /\ events = << >>
    /\ pc = "idle"
    /\ call = NoCall
    /\ startTick = FALSE
    /\ lastStartEntry = "IDLE"
    /\ raised = 0

\* _send_event, nova_sonic_streaming.py:471-472: the event is dropped silently.
Suppressed == stream = 0 \/ state = "CLOSED"

\* _send_event, nova_sonic_streaming.py:474-483: the log after a send of ev that
\* the transport accepts (ok) or refuses.
EventsAfter(ev, ok) ==
    IF ~Suppressed /\ ok THEN Append(events, ev) ELSE events

\* _send_event, nova_sonic_streaming.py:480-483: the send raises to its caller.
SendRaises(ok) == ~Suppressed /\ ~ok /\ state # "CLOSING"

\* start, nova_sonic_streaming.py:112-114: the call returns at once.
StartIsNoopReadyOnly == state = "READY"

StartIsNoop == state # "IDLE"

\* start on a session that is not IDLE (any task may make this call).
StartRefused ==
    /\ StartIsNoop
    /\ startTick' = ~startTick
    /\ lastStartEntry' = state
    /\ UNCHANGED <<state, stream, streamsOpened, streamsClosed, prompt_name,
                   current_audio_content_name, receiving, user_speaking,
                   content_name, uuidNext, events, pc, call, raised>>
    /\ UNCHANGED notSession

\* start, nova_sonic_streaming.py:112-117.
StartBegin ==
    /\ pc = "idle"
    /\ ~StartIsNoop
    /\ streamsOpened < MaxStarts
    /\ state' = "STARTING"
    /\ pc' = "open"
    /\ call' = [op |-> "start", entry |-> state, outcome |-> "running",
                from |-> Len(events), fault |-> FALSE,
                        block |-> current_audio_content_name, open |-> stream # 0,
                        speaking |-> user_speaking]
    /\ startTick' = ~startTick
    /\ lastStartEntry' = state
    /\ UNCHANGED <<stream, streamsOpened, streamsClosed, prompt_name,
                   current_audio_content_name, receiving, user_speaking,
                   content_name, uuidNext, events, raised>>
    /\ UNCHANGED notSession

\* A variant of the except clause that does not reset the state.
StartRaiseKeepsState(fault) ==
    /\ state' = state
    /\ pc' = "idle"
    /\ call' = [call EXCEPT !.outcome = "raised", !.fault = fault]
    /\ raised' = raised + 1

\* start's except clause, nova_sonic_streaming.py:134-154, after the transport
\* refused (fault) or another exception.
StartRaise(fault) ==
    /\ state' = "IDLE"
    /\ pc' = "idle"
    /\ call' = [call EXCEPT !.outcome = "raised", !.fault = fault]
    /\ raised' = raised + 1

\* start, nova_sonic_streaming.py:120-123: the transport is opened.
StartOpen(ok) ==
    /\ pc = "open"
    /\ IF ok
       THEN /\ stream' = streamsOpened + 1
            /\ streamsOpened' = streamsOpened + 1
            /\ pc' = "sessionStart"
            /\ UNCHANGED <<state, call, raised>>
       ELSE /\ StartRaise(TRUE)
            /\ streamsOpened' = streamsOpened + 1
            /\ UNCHANGED stream
    /\ UNCHANGED <<streamsClosed, prompt_name, current_audio_content_name,
                   receiving, user_speaking, content_name, uuidNext, events,
                   startTick, lastStartEntry>>
    /\ UNCHANGED notSession

\* _initialize_session and _send_system_prompt, nova_sonic_streaming.py:156-239:
\* the send that follows each send.
StartPcAfterSkipsContentEnd(p) ==
    CASE p = "sessionStart"    -> "promptStart"
      [] p = "promptStart"     -> "sysContentStart"
      [] p = "sysContentStart" -> "sysTextInput"
      [] p = "sysTextInput"    -> "audioContentStart"
      [] p = "sysContentEnd"   -> "audioContentStart"

StartPcAfter(p) ==
    CASE p = "sessionStart"    -> "promptStart"
      [] p = "promptStart"     -> "sysContentStart"
      [] p = "sysContentStart" -> "sysTextInput"
      [] p = "sysTextInput"    -> "sysContentEnd"
      [] p = "sysContentEnd"   -> "audioContentStart"

\* The event each of those sends carries (cn: the system block's content name).
StartEvent(p, cn) ==
    CASE p = "sessionStart"    -> Ev("sessionStart", 0, 0, "", "", FALSE)
      [] p = "promptStart"     -> Ev("promptStart", prompt_name, 0, "", "", FALSE)
      [] p = "sysContentStart" -> Ev("contentStart", prompt_name, cn, "SYSTEM", "TEXT", FALSE)
      [] p = "sysTextInput"    -> Ev("textInput", prompt_name, cn, "", "", FALSE)
      [] p = "sysContentEnd"   -> Ev("contentEnd", prompt_name, cn, "", "TEXT", FALSE)

\* nova_sonic_streaming.py:159-239: sessionStart, promptStart and the three
\* events of the system prompt.
StartSend(ok) ==
    /\ pc \in {"sessionStart", "promptStart", "sysContentStart", "sysTextInput",
               "sysContentEnd"}
    /\ LET fresh == pc = "sysContentStart"
           cn == IF fresh THEN uuidNext ELSE content_name
       IN /\ content_name' = cn
          /\ uuidNext' = IF fresh THEN uuidNext + 1 ELSE uuidNext
          /\ events' = EventsAfter(StartEvent(pc, cn), ok)
    /\ IF SendRaises(ok)
       THEN StartRaise(TRUE)
       ELSE /\ pc' = StartPcAfter(pc)
            /\ UNCHANGED <<state, call, raised>>
    /\ UNCHANGED <<stream, streamsOpened, streamsClosed, prompt_name,
                   current_audio_content_name, receiving, user_speaking,
                   startTick, lastStartEntry>>
    /\ UNCHANGED notSession

\* _start_audio_content, nova_sonic_streaming.py:241-265, then line 199:
\* self._trigger_initial_greeting is an attribute the class does not define,
\* so the lookup raises AttributeError, which start's except clause handles.
\* Lines 128-132 (state READY, receiving) are never reached.
StartAudioContent(ok) ==
    /\ pc = "audioContentStart"
    /\ current_audio_content_name' = uuidNext
    /\ uuidNext' = uuidNext + 1
    /\ events' = EventsAfter(
            Ev("contentStart", prompt_name, uuidNext, "USER", "AUDIO", TRUE), ok)
    /\ IF SendRaises(ok)
       THEN /\ StartRaise(TRUE)
            /\ UNCHANGED user_speaking
       ELSE /\ user_speaking' = TRUE
            /\ StartRaise(FALSE)
    /\ UNCHANGED <<stream, streamsOpened, streamsClosed, prompt_name, receiving,
                   content_name, startTick, lastStartEntry>>
    /\ UNCHANGED notSession

\* send_audio, nova_sonic_streaming.py:267-291.  A refused send is caught and logged.
SendAudioCall(ok) ==
    /\ pc = "idle"
    /\ LET skip == current_audio_content_name = 0 \/ state # "READY"
       IN /\ call' = [op |-> "send_audio", entry |-> state, outcome |-> "returned",
                      from |-> Len(events), fault |-> (~skip /\ ~Suppressed /\ ~ok),
                        block |-> current_audio_content_name, open |-> stream # 0,
                        speaking |-> user_speaking]
          /\ IF skip
             THEN UNCHANGED events
             ELSE events' = EventsAfter(
                      Ev("audioInput", prompt_name, current_audio_content_name,
                         "", "", FALSE), ok)
    /\ UNCHANGED <<state, stream, streamsOpened, streamsClosed, prompt_name,
                   current_audio_content_name, receiving, user_speaking,
                   content_name, uuidNext, pc, startTick, lastStartEntry, raised>>

SendAudio(ok) == SendAudioCall(ok) /\ UNCHANGED notSession

\* finish_user_turn, nova_sonic_streaming.py:293-299.
FinishUserTurnBegin ==
    /\ pc = "idle"
    /\ IF ~user_speaking \/ current_audio_content_name = 0
       THEN /\ call' = [op |-> "finish_user_turn", entry |-> state,
                        outcome |-> "returned", from |-> Len(events), fault |-> FALSE,
                        block |-> current_audio_content_name, open |-> stream # 0,
                        speaking |-> user_speaking]
            /\ UNCHANGED <<user_speaking, pc>>
       ELSE /\ user_speaking' = FALSE
            /\ pc' = "finish_contentEnd"
            /\ call' = [op |-> "finish_user_turn", entry |-> state,
                        outcome |-> "running", from |-> Len(events), fault |-> FALSE,
                        block |-> current_audio_content_name, open |-> stream # 0,
                        speaking |-> user_speaking]
    /\ UNCHANGED <<state, stream, streamsOpened, streamsClosed, prompt_name,
                   current_audio_content_name, receiving, content_name, uuidNext,
                   events, startTick, lastStartEntry, raised>>
    /\ UNCHANGED notSession

\* The events that end the open user block and the prompt
\* (nova_sonic_streaming.py:303-320 and 424-440).
ContentEndEvent == Ev("contentEnd", prompt_name, current_audio_content_name, "", "AUDIO", FALSE)
PromptEndEvent == Ev("promptEnd", prompt_name, 0, "", "", FALSE)

\* finish_user_turn, nova_sonic_streaming.py:323: the audio content name after
\* both events were sent.
NameAfterFinishKept == current_audio_content_name

NameAfterFinish == 0

\* finish_user_turn, nova_sonic_streaming.py:301-326: contentEnd, then promptEnd,
\* then the content name is cleared; a refused send is caught and logged.
FinishUserTurnSend(ok) ==
    /\ pc \in {"finish_contentEnd", "finish_promptEnd"}
    /\ events' = EventsAfter(
            IF pc = "finish_contentEnd" THEN ContentEndEvent ELSE PromptEndEvent, ok)
    /\ IF SendRaises(ok)
       THEN /\ pc' = "idle"
            /\ call' = [call EXCEPT !.outcome = "returned", !.fault = TRUE]
            /\ UNCHANGED current_audio_content_name
       ELSE IF pc = "finish_contentEnd"
            THEN /\ pc' = "finish_promptEnd"
                 /\ UNCHANGED <<call, current_audio_content_name>>
            ELSE /\ pc' = "idle"
                 /\ current_audio_content_name' = NameAfterFinish
                 /\ call' = [call EXCEPT !.outcome = "returned"]
    /\ UNCHANGED <<state, stream, streamsOpened, streamsClosed, prompt_name,
                   receiving, user_speaking, content_name, uuidNext,
                   startTick, lastStartEntry, raised>>
    /\ UNCHANGED notSession

\* close, nova_sonic_streaming.py:414-415: the call returns at once.
CloseIsNoopNever == FALSE

CloseIsNoop == state = "CLOSED"

\* close, nova_sonic_streaming.py:412-423.
CloseBegin ==
    /\ pc = "idle"
    /\ IF CloseIsNoop
       THEN /\ call' = [op |-> "close", entry |-> state, outcome |-> "returned",
                        from |-> Len(events), fault |-> FALSE,
                        block |-> current_audio_content_name, open |-> stream # 0,
                        speaking |-> user_speaking]
            /\ UNCHANGED <<state, receiving, pc>>
       ELSE /\ state' = "CLOSING"
            /\ receiving' = FALSE
            /\ pc' = IF current_audio_content_name # 0
                     THEN "close_contentEnd" ELSE "close_sessionEnd"
            /\ call' = [op |-> "close", entry |-> state, outcome |-> "running",
                        from |-> Len(events), fault |-> FALSE,
                        block |-> current_audio_content_name, open |-> stream # 0,
                        speaking |-> user_speaking]
    /\ UNCHANGED <<stream, streamsOpened, streamsClosed, prompt_name,
                   current_audio_content_name, user_speaking, content_name,
                   uuidNext, events, startTick, lastStartEntry, raised>>
    /\ UNCHANGED notSession

\* close, nova_sonic_streaming.py:423-447: the send that follows each send.
ClosePcAfterSkipsPromptEnd(p) ==
    CASE p = "close_contentEnd" -> "close_sessionEnd"
      [] p = "close_promptEnd"  -> "close_sessionEnd"
      [] p = "close_sessionEnd" -> "close_release"

ClosePcAfter(p) ==
    CASE p = "close_contentEnd" -> "close_promptEnd"
      [] p = "close_promptEnd"  -> "close_sessionEnd"
      [] p = "close_sessionEnd" -> "close_release"

\* close, nova_sonic_streaming.py:421-459: contentEnd and promptEnd for an open
\* block, then sessionEnd; an exception leads to the finally clause.
CloseSend(ok) ==
    /\ pc \in {"close_contentEnd", "close_promptEnd", "close_sessionEnd"}
    /\ events' = EventsAfter(
            CASE pc = "close_contentEnd" -> ContentEndEvent
              [] pc = "close_promptEnd"  -> PromptEndEvent
              [] pc = "close_sessionEnd" -> Ev("sessionEnd", 0, 0, "", "", FALSE), ok)
    /\ pc' = IF SendRaises(ok) THEN "close_release" ELSE ClosePcAfter(pc)
    /\ call' = [call EXCEPT !.fault = call.fault \/ (~Suppressed /\ ~ok)]
    /\ UNCHANGED <<state, stream, streamsOpened, streamsClosed, prompt_name,
                   current_audio_content_name, receiving, user_speaking,
                   content_name, uuidNext, startTick, lastStartEntry, raised>>
    /\ UNCHANGED notSession

\* close's finally clause, nova_sonic_streaming.py:462-467: self.stream after
\* input_stream.close() returned (ok) or raised.
StreamAfterCloseOnlyIfOk(ok) == IF ok THEN 0 ELSE stream

StreamAfterClose(ok) == 0

\* close's finally clause, nova_sonic_streaming.py:460-467.
CloseRelease(ok) ==
    /\ pc = "close_release"
    /\ state' = "CLOSED"
    /\ streamsClosed' = IF stream # 0 /\ ok THEN streamsClosed \cup {stream}
                        ELSE streamsClosed
    /\ stream' = StreamAfterClose(ok)
    /\ pc' = "idle"
    /\ call' = [call EXCEPT !.outcome = "returned"]
    /\ UNCHANGED <<streamsOpened, prompt_name, current_audio_content_name,
                   receiving, user_speaking, content_name, uuidNext, events,
                   startTick, lastStartEntry, raised>>
    /\ UNCHANGED notSession

SessionNext ==
    \/ StartRefused
    \/ StartBegin
    \/ \E ok \in BOOLEAN : StartOpen(ok)
    \/ \E ok \in BOOLEAN : StartSend(ok)
    \/ \E ok \in BOOLEAN : StartAudioContent(ok)
    \/ \E ok \in BOOLEAN : SendAudio(ok)
    \/ FinishUserTurnBegin
    \/ \E ok \in BOOLEAN : FinishUserTurnSend(ok)
    \/ CloseBegin
    \/ \E ok \in BOOLEAN : CloseSend(ok)
    \/ \E ok \in BOOLEAN : CloseRelease(ok)

-----------------------------------------------------------------------------
(* handle_websocket with its SonicSession.  The inbound message loop, the  *)
(* relay_model_audio tasks and the enforce_time_cap tasks run on one       *)
(* asyncio event loop: a task runs from one await to the next without      *)
(* interruption, and at an await any other ready task may run.  A write to *)
(* the telephony channel (await websocket.send) hands the message to the   *)
(* transport and then awaits the drain, so the writer may be suspended     *)
(* with its message already written.  Task.cancel() only marks the task:   *)
(* CancelledError is thrown at the task's next resumption.                 *)

\* Bound: relay_model_audio tasks created in one call.
MaxRelayTasks == 3
\* Bound: start events of one call whose session start opens a transport.
MaxStartEvents == 2
\* Bound: completionEnd events the model sends in one call.
MaxTurns == 1
\* Bound: media events the inbound loop reads in one call of SpecOrd.
MaxMedia == 2

RelayIds == 1..MaxRelayTasks
CapIds == 1..MaxStartEvents

\* An event sent to the model by recv_loop: its type, promptName, contentName.
SonicEv(type, p, c) == [type |-> type, promptName |-> p, contentName |-> c]

\* No media event handled yet; no completionEnd processed yet.
NoMedia == [interrupt |-> FALSE, outcome |-> "none", kind |-> "none"]
NoTurn == [phase |-> "none", prev |-> 0, log |-> << >>]

\* close() has not been called.
NoCloseCall == [called |-> FALSE, active |-> FALSE, block |-> 0, events |-> << >>,
                closed |-> 0]

\* What a media event carries: no payload, a payload that does not decode, a
\* payload of one 20 ms frame.
PayloadKinds == {"none", "bad", "good"}

\* handle_websocket, websocket_service.py:30-54, and SonicSession.__init__.
HandleWebsocketInit ==
    /\ hwPc = "recv"
    /\ hwPayload = FALSE
    /\ ws = "open"
    /\ call_sid = FALSE
    /\ audio_input_started = FALSE
    /\ receive_task = 0
    /\ cap_task = 0
    /\ relay = [t \in RelayIds |-> [pc |-> "none", cancel |-> FALSE]]
    /\ caps = [t \in CapIds |-> [pc |-> "none", cancel |-> FALSE]]
    /\ hangups = 0
    /\ cleared = 0
    /\ lateWrites = FALSE
    /\ interrupted = FALSE
    /\ media = NoMedia
    /\ turn = NoTurn
    /\ sonic_active = FALSE
    /\ sonic_stream = 0
    /\ sonic_streamsOpened = 0
    /\ sonic_session_started = FALSE
    /\ sonic_prompt_name = 1
    /\ sonic_content_name = 0
    /\ sonic_uuidNext = 2
    /\ sonic_closeCall = NoCloseCall
    /\ mediaRead = 0
    /\ audioInputLast = 0
    /\ trig = [pc |-> "idle", name |-> 0, log |-> <<>>, started |-> FALSE,
               refused |-> FALSE, of |-> 0]

\* task.done() for a relay task / a watchdog.
RelayDone(t) == relay[t].pc = "done"
CapDone(t) == caps[t].pc = "done"

\* The relay tasks created and not yet finished.
ActiveRelays == {t \in RelayIds : relay[t].pc \notin {"none", "done"}}

RelaysCreated == Cardinality({t \in RelayIds : relay[t].pc # "none"})
CapsCreated == Cardinality({t \in CapIds : caps[t].pc # "none"})

\* websocket_service.py:131 and 178: "not receive_task or receive_task.done()".
RelayMayBeCreatedAlways == TRUE

RelayMayBeCreated == receive_task = 0 \/ RelayDone(receive_task)

\* websocket_service.py:132 and 180: asyncio.create_task(relay_model_audio())
\* under that condition; the table of relay tasks and receive_task afterwards.
RelayAfterCreate ==
    IF RelayMayBeCreated
    THEN [relay EXCEPT ![RelaysCreated + 1] = [pc |-> "new", cancel |-> FALSE]]
    ELSE relay

ReceiveTaskAfterCreate ==
    IF RelayMayBeCreated THEN RelaysCreated + 1 ELSE receive_task

\* websocket_service.py:141: "receive_task and not receive_task.done()".
RelayIsActive == receive_task # 0 /\ ~RelayDone(receive_task)

\* Task.cancel() on a task that is not done.
Cancelled(tasks, t) ==
    IF t # 0 /\ tasks[t].pc # "done" THEN [tasks EXCEPT ![t].cancel = TRUE] ELSE tasks

\* The peer (or the network) closes the telephony channel.
PeerCloses ==
    /\ ws = "open"
    /\ hwPc # "done"
    /\ ws' = "closed"
    /\ UNCHANGED <<hwPc, hwPayload, call_sid, audio_input_started, receive_task,
                   cap_task, relay, caps, hangups, cleared, lateWrites, interrupted>>
    /\ UNCHANGED sonicVars
    /\ UNCHANGED <<media, turn>>
    /\ UNCHANGED ordVars
    /\ UNCHANGED notWs

\* websocket_service.py:108-117: a start event is read.
HwRecvStart ==
    /\ hwPc = "recv" /\ ws = "open"
    /\ sonic_streamsOpened < MaxStartEvents
    /\ RelaysCreated < MaxRelayTasks
    /\ call_sid' = TRUE
    /\ hwPc' = "start_session"
    /\ UNCHANGED <<hwPayload, ws, audio_input_started, receive_task, cap_task,
                   relay, caps, hangups, cleared, lateWrites, interrupted>>
    /\ UNCHANGED sonicVars
    /\ media' = NoMedia
    /\ UNCHANGED turn
    /\ UNCHANGED ordVars
    /\ UNCHANGED notWs

\* SonicSession.start, bedrock_service.py:195-249, awaited at
\* websocket_service.py:121.  how: "ok", "open_fails" (the transport does not
\* open) or "send_fails" (a send on the new transport is refused); a failure
\* is re-raised and ends the handling of the event (websocket_service.py:189).
HwStartSession(how) ==
    /\ hwPc = "start_session"
    /\ IF how = "open_fails"
       THEN UNCHANGED <<sonic_stream, sonic_streamsOpened>>
       ELSE /\ sonic_stream' = sonic_streamsOpened + 1
            /\ sonic_streamsOpened' = sonic_streamsOpened + 1
    /\ sonic_active' = (how = "ok")
    /\ sonic_session_started' = (sonic_session_started \/ how = "ok")
    /\ hwPc' = IF how = "ok" THEN "start_trigger" ELSE "recv"
    /\ UNCHANGED <<sonic_prompt_name, sonic_content_name, sonic_uuidNext,
                   sonic_closeCall>>
    /\ UNCHANGED <<hwPayload, ws, call_sid, audio_input_started, receive_task,
                   cap_task, relay, caps, hangups, cleared, lateWrites, interrupted>>
    /\ UNCHANGED <<media, turn>>
    /\ UNCHANGED ordVars
    /\ UNCHANGED notWs

\* websocket_service.py:125-136: trigger_initial_response (its failures are
\* logged, bedrock_service.py:192), then the relay task is created if none is
\* pending and a watchdog is created.
HwStartTasks ==
    /\ hwPc = "start_trigger"
    /\ audio_input_started' = TRUE
    /\ relay' = RelayAfterCreate
    /\ receive_task' = ReceiveTaskAfterCreate
    /\ caps' = [caps EXCEPT ![CapsCreated + 1] = [pc |-> "sleeping", cancel |-> FALSE]]
    /\ cap_task' = CapsCreated + 1
    /\ hwPc' = "recv"
    /\ UNCHANGED <<hwPayload, ws, call_sid, hangups, cleared, lateWrites, interrupted>>
    /\ UNCHANGED sonicVars
    /\ UNCHANGED <<media, turn>>
    /\ UNCHANGED ordVars
    /\ UNCHANGED notWs

\* websocket_service.py:138-149: a media event is read; with the relay task
\* active the clear message is written and the loop awaits the send.
HwRecvMedia(kind) ==
    /\ hwPc = "recv" /\ ws = "open"
    /\ audio_input_started
    /\ hwPayload' = (kind # "none")
    /\ media' = [interrupt |-> RelayIsActive, outcome |-> "pending", kind |-> kind]
    /\ IF RelayIsActive
       THEN /\ cleared' = receive_task
            /\ hwPc' = "clear_sent"
       ELSE /\ hwPc' = "media_payload"
            /\ UNCHANGED cleared
    /\ UNCHANGED <<ws, call_sid, audio_input_started, receive_task, cap_task,
                   relay, caps, hangups, lateWrites, interrupted>>
    /\ UNCHANGED sonicVars
    /\ UNCHANGED turn
    /\ UNCHANGED notWs

\* websocket_service.py:150-155: the send of clear has returned; the relay task
\* is cancelled and awaited.
HwCancelRelay ==
    /\ hwPc = "clear_sent"
    /\ relay' = Cancelled(relay, receive_task)
    /\ hwPc' = "join"
    /\ UNCHANGED <<hwPayload, ws, call_sid, audio_input_started, receive_task,
                   cap_task, caps, hangups, cleared, lateWrites, interrupted>>
    /\ UNCHANGED sonicVars
    /\ UNCHANGED <<media, turn>>
    /\ UNCHANGED ordVars
    /\ UNCHANGED notWs

\* websocket_service.py:155-158: the awaited relay task has finished.
HwJoinRelay ==
    /\ hwPc = "join"
    /\ RelayDone(receive_task)
    /\ receive_task' = 0
    /\ cleared' = 0
    /\ interrupted' = TRUE
    /\ hwPc' = "media_payload"
    /\ UNCHANGED <<hwPayload, ws, call_sid, audio_input_started, cap_task,
                   relay, caps, hangups, lateWrites>>
    /\ UNCHANGED sonicVars
    /\ UNCHANGED <<media, turn>>
    /\ UNCHANGED ordVars
    /\ UNCHANGED notWs

\* ulaw_b64_to_pcm16_bytes, utils.py:35-44: the number of PCM16 bytes returned
\* for a payload: two per sample of the 160-byte frame, or the empty bytes
\* when the decoding raised.
UlawB64ToPcm16Bytes(kind) ==
    IF kind = "good" THEN FRAME_SIZE_BYTES ELSE 0

\* SonicSession.send_audio_pcm16, bedrock_service.py:322-344, and _send_event,
\* bedrock_service.py:523-536: what becomes of pcm decoded bytes.  "dropped":
\* the session is not active, the bytes are empty or there is no audio content
\* name; "forwarded": an audioInput event is sent (ok: the transport accepts it).
SendAudioPcm16(pcm, ok) ==
    IF ~sonic_active \/ pcm = 0 \/ sonic_content_name = 0 \/ sonic_stream = 0
    THEN "dropped"
    ELSE IF ok THEN "forwarded" ELSE "refused"

\* websocket_service.py:161-169 with SonicSession.send_audio_pcm16,
\* bedrock_service.py:322-344: the payload, if any, is decoded and handed to
\* the session; nothing of the session changes.
HwForwardMedia(ok) ==
    /\ hwPc = "media_payload"
    /\ hwPc' = "recv"
    /\ hwPayload' = FALSE
    /\ media' = [media EXCEPT !.outcome =
                    IF hwPayload
                    THEN SendAudioPcm16(UlawB64ToPcm16Bytes(media.kind), ok)
                    ELSE "no_payload"]
    /\ UNCHANGED <<ws, call_sid, audio_input_started, receive_task, cap_task,
                   relay, caps, hangups, cleared, lateWrites, interrupted>>
    /\ UNCHANGED sonicVars
    /\ UNCHANGED turn
    /\ UNCHANGED notWs

\* websocket_service.py:171-172: a stop event is read.
HwRecvStop ==
    /\ hwPc = "recv" /\ ws = "open"
    /\ audio_input_started
    /\ RelaysCreated < MaxRelayTasks
    /\ hwPc' = "stop_finish"
    /\ UNCHANGED <<hwPayload, ws, call_sid, audio_input_started, receive_task,
                   cap_task, relay, caps, hangups, cleared, lateWrites, interrupted>>
    /\ UNCHANGED sonicVars
    /\ media' = NoMedia
    /\ UNCHANGED turn
    /\ UNCHANGED ordVars
    /\ UNCHANGED notWs

\* websocket_service.py:173-182 with SonicSession.finish_user_turn,
\* bedrock_service.py:346-377: the user block is ended (ok: the transport
\* accepts contentEnd and promptEnd), then a relay task is created if none is
\* pending.
HwStopFinish(ok) ==
    /\ hwPc = "stop_finish"
    /\ sonic_content_name' =
          IF sonic_active /\ sonic_content_name # 0 /\ ok THEN 0 ELSE sonic_content_name
    /\ relay' = RelayAfterCreate
    /\ receive_task' = ReceiveTaskAfterCreate
    /\ hwPc' = "recv"
    /\ UNCHANGED <<sonic_active, sonic_stream, sonic_streamsOpened,
                   sonic_session_started, sonic_prompt_name, sonic_uuidNext,
                   sonic_closeCall>>
    /\ UNCHANGED <<hwPayload, ws, call_sid, audio_input_started, cap_task, caps,
                   hangups, cleared, lateWrites, interrupted>>
    /\ UNCHANGED <<media, turn>>
    /\ UNCHANGED ordVars
    /\ UNCHANGED notWs

\* websocket_service.py:192-208: the channel is closed, the loop ends; the
\* finally clause cancels receive_task and cap_task and awaits both.
HwLoopEnds ==
    /\ hwPc = "recv" /\ ws = "closed"
    /\ relay' = Cancelled(relay, receive_task)
    /\ caps' = Cancelled(caps, cap_task)
    /\ hwPc' = "gather"
    /\ UNCHANGED <<hwPayload, ws, call_sid, audio_input_started, receive_task,
                   cap_task, hangups, cleared, lateWrites, interrupted>>
    /\ UNCHANGED sonicVars
    /\ media' = NoMedia
    /\ UNCHANGED turn
    /\ UNCHANGED ordVars
    /\ UNCHANGED notWs

\* _send_event, bedrock_service.py:525-526: the event is dropped silently.
SonicSuppressed(active, str) == str = 0 \/ ~active

\* SonicSession.close, bedrock_service.py:481-511: the events the three sends
\* put on a transport that accepts them, with self.active as it is when they
\* are made, under prompt p with user block b (0: none).
SonicCloseEvents(active, str, p, b) ==
    IF SonicSuppressed(active, str) THEN << >>
    ELSE IF b # 0
         THEN << SonicEv("contentEnd", p, b), SonicEv("promptEnd", p, 0),
                 SonicEv("sessionEnd", 0, 0) >>
         ELSE << SonicEv("sessionEnd", 0, 0) >>

\* websocket_service.py:204-211 with SonicSession.close,
\* bedrock_service.py:472-521: both awaited tasks have finished, the session
\* is closed.  close() sets self.active to False (line 479) before its sends.
HwCloseSession ==
    /\ hwPc = "gather"
    /\ receive_task # 0 => RelayDone(receive_task)
    /\ cap_task # 0 => CapDone(cap_task)
    /\ IF sonic_active
       THEN /\ sonic_active' = FALSE
            /\ sonic_stream' = 0
            /\ sonic_closeCall' =
                  [called |-> TRUE, active |-> TRUE, block |-> sonic_content_name,
                   events |-> SonicCloseEvents(FALSE, sonic_stream,
                                               sonic_prompt_name, sonic_content_name),
                   closed |-> sonic_stream]
       ELSE /\ UNCHANGED <<sonic_active, sonic_stream>>
            /\ sonic_closeCall' = [NoCloseCall EXCEPT !.called = TRUE]
    /\ hwPc' = "done"
    /\ UNCHANGED <<sonic_streamsOpened, sonic_session_started, sonic_prompt_name,
                   sonic_content_name, sonic_uuidNext>>
    /\ UNCHANGED <<hwPayload, ws, call_sid, audio_input_started, receive_task,
                   cap_task, relay, caps, hangups, cleared, lateWrites, interrupted>>
    /\ UNCHANGED <<media, turn>>
    /\ UNCHANGED ordVars
    /\ UNCHANGED notWs

\* recv_loop, bedrock_service.py:387: "while self.active" at the top of the loop.
LoopTop == IF sonic_active THEN "await_output" ELSE "done"

RelayRuns(t, at) == relay[t].pc \in at /\ ~relay[t].cancel

\* relay_model_audio, websocket_service.py:68-73, entering recv_loop,
\* bedrock_service.py:379-391.
RelayBegin(t) ==
    /\ RelayRuns(t, {"new"})
    /\ relay' = [relay EXCEPT ![t].pc =
                    IF ~sonic_active \/ sonic_stream = 0 THEN "done" ELSE LoopTop]
    /\ UNCHANGED <<hwPc, hwPayload, ws, call_sid, audio_input_started,
                   receive_task, cap_task, caps, hangups, cleared, lateWrites, interrupted>>
    /\ UNCHANGED sonicVars
    /\ turn' = NoTurn
    /\ UNCHANGED media
    /\ UNCHANGED ordVars
    /\ UNCHANGED notWs

\* recv_loop, bedrock_service.py:390-410 and 443-463: the model sends an
\* audioOutput event, which is yielded to relay_model_audio (it then awaits
\* asyncio.sleep(0), websocket_service.py:78), or an event that is only logged
\* or skipped.
RelayOutput(t, audio) ==
    /\ RelayRuns(t, {"await_output"})
    /\ relay' = [relay EXCEPT ![t].pc = IF audio THEN "sleep0" ELSE LoopTop]
    /\ UNCHANGED <<hwPc, hwPayload, ws, call_sid, audio_input_started,
                   receive_task, cap_task, caps, hangups, cleared, lateWrites, interrupted>>
    /\ UNCHANGED sonicVars
    /\ turn' = NoTurn
    /\ UNCHANGED media
    /\ UNCHANGED ordVars
    /\ UNCHANGED notWs

\* recv_loop, bedrock_service.py:413-437: completionEnd; a fresh prompt name,
\* then promptStart is sent.  A refused send is caught at line 460.
RelayCompletionEnd(t, ok) ==
    /\ RelayRuns(t, {"await_output"})
    /\ sonic_uuidNext < 2 + 2 * MaxTurns
    /\ sonic_prompt_name' = sonic_uuidNext
    /\ sonic_uuidNext' = sonic_uuidNext + 1
    /\ relay' = [relay EXCEPT ![t].pc =
                    IF ok \/ ~sonic_active \/ sonic_stream = 0 THEN "ps_sent" ELSE LoopTop]
    /\ turn' = [phase |-> IF ~sonic_active \/ sonic_stream = 0 THEN "inactive"
                          ELSE IF ok THEN "promptStart" ELSE "refused",
                prev |-> sonic_prompt_name,
                log |-> IF sonic_active /\ sonic_stream # 0 /\ ok
                        THEN << SonicEv("promptStart", sonic_uuidNext, 0) >>
                        ELSE << >>]
    /\ UNCHANGED <<sonic_active, sonic_stream, sonic_streamsOpened,
                   sonic_session_started, sonic_content_name, sonic_closeCall>>
    /\ UNCHANGED <<hwPc, hwPayload, ws, call_sid, audio_input_started,
                   receive_task, cap_task, caps, hangups, cleared, lateWrites, interrupted>>
    /\ UNCHANGED media
    /\ UNCHANGED ordVars
    /\ UNCHANGED notWs

\* recv_loop, bedrock_service.py:439-441, with start_audio_input,
\* bedrock_service.py:293-320: a new user audio block is opened.
RelayStartAudioInput(t, ok) ==
    /\ RelayRuns(t, {"ps_sent"})
    /\ IF sonic_session_started
       THEN /\ sonic_content_name' = sonic_uuidNext
            /\ sonic_uuidNext' = sonic_uuidNext + 1
            /\ relay' = [relay EXCEPT ![t].pc =
                    IF ok \/ ~sonic_active \/ sonic_stream = 0 THEN "cs_sent" ELSE LoopTop]
            /\ turn' = [turn EXCEPT
                  !.phase = IF ~sonic_active \/ sonic_stream = 0 THEN "inactive"
                            ELSE IF turn.phase # "promptStart" THEN turn.phase
                            ELSE IF ok THEN "done" ELSE "refused",
                  !.log = IF sonic_active /\ sonic_stream # 0 /\ ok
                          THEN Append(turn.log,
                                 SonicEv("contentStart", sonic_prompt_name, sonic_uuidNext))
                          ELSE turn.log]
       ELSE /\ relay' = [relay EXCEPT ![t].pc = LoopTop]
            /\ turn' = [turn EXCEPT !.phase = "inactive"]
            /\ UNCHANGED <<sonic_content_name, sonic_uuidNext>>
    /\ UNCHANGED <<sonic_active, sonic_stream, sonic_streamsOpened,
                   sonic_session_started, sonic_prompt_name, sonic_closeCall>>
    /\ UNCHANGED <<hwPc, hwPayload, ws, call_sid, audio_input_started,
                   receive_task, cap_task, caps, hangups, cleared, lateWrites, interrupted>>
    /\ UNCHANGED media
    /\ UNCHANGED ordVars
    /\ UNCHANGED notWs

\* relay_model_audio, websocket_service.py:80-96: resumed after sleep(0) the
\* task writes the media message, resumed after that send it writes the mark
\* message.  A closed channel makes the send raise, which ends the task
\* (websocket_service.py:101-104).
RelayWrite(t) ==
    /\ RelayRuns(t, {"sleep0", "media_sent"})
    /\ IF ws = "open"
       THEN /\ relay' = [relay EXCEPT ![t].pc =
                            IF relay[t].pc = "sleep0" THEN "media_sent" ELSE "mark_sent"]
            /\ lateWrites' = (lateWrites \/ t = cleared)
       ELSE /\ relay' = [relay EXCEPT ![t].pc = "done"]
            /\ UNCHANGED lateWrites
    /\ UNCHANGED <<hwPc, hwPayload, ws, call_sid, audio_input_started,
                   receive_task, cap_task, caps, hangups, cleared, interrupted>>
    /\ UNCHANGED sonicVars
    /\ UNCHANGED <<media, turn>>
    /\ UNCHANGED ordVars
    /\ UNCHANGED notWs

\* The send of mark (websocket_service.py:96) or of contentStart
\* (bedrock_service.py:301) has returned: back to the top of recv_loop.
RelayResume(t) ==
    /\ RelayRuns(t, {"mark_sent", "cs_sent"})
    /\ relay' = [relay EXCEPT ![t].pc = LoopTop]
    /\ UNCHANGED <<hwPc, hwPayload, ws, call_sid, audio_input_started,
                   receive_task, cap_task, caps, hangups, cleared, lateWrites, interrupted>>
    /\ UNCHANGED sonicVars
    /\ UNCHANGED <<media, turn>>
    /\ UNCHANGED ordVars
    /\ UNCHANGED notWs

\* recv_loop, bedrock_service.py:390-391 and 460-463: the receive from the
\* model transport raises; the exception is logged and the loop goes on with
\* its next receive.  suspends: the failing receive suspended the task first
\* (then any ready task may run before the loop's next receive); otherwise
\* the task runs on from one failing receive to the next without an await
\* that suspends, and no other task of the event loop runs.
RelayRecvFails(t, suspends) ==
    /\ RelayRuns(t, {"await_output"})
    /\ relay' = [relay EXCEPT ![t].pc = IF suspends THEN "retry" ELSE "spin"]
    /\ UNCHANGED <<hwPc, hwPayload, ws, call_sid, audio_input_started,
                   receive_task, cap_task, caps, hangups, cleared, lateWrites, interrupted>>
    /\ UNCHANGED sonicVars
    /\ UNCHANGED <<media, turn>>
    /\ UNCHANGED ordVars
    /\ UNCHANGED notWs

\* recv_loop, bedrock_service.py:463 and 387: "continue", back to the top of the loop.
RelayRetry(t) ==
    /\ RelayRuns(t, {"retry"})
    /\ relay' = [relay EXCEPT ![t].pc = LoopTop]
    /\ UNCHANGED <<hwPc, hwPayload, ws, call_sid, audio_input_started,
                   receive_task, cap_task, caps, hangups, cleared, lateWrites, interrupted>>
    /\ UNCHANGED sonicVars
    /\ UNCHANGED <<media, turn>>
    /\ UNCHANGED ordVars
    /\ UNCHANGED notWs

\* The event loop is not held by a task that never suspends.
Running == \A t \in RelayIds : relay[t].pc # "spin"

\* A cancelled relay task is resumed with CancelledError and ends
\* (bedrock_service.py:457-459, websocket_service.py:99-104).
RelayCancelled(t) ==
    /\ relay[t].cancel
    /\ relay[t].pc \notin {"none", "done"}
    /\ relay' = [relay EXCEPT ![t] = [pc |-> "done", cancel |-> FALSE]]
    /\ turn' = IF relay[t].pc = "ps_sent" /\ turn.phase = "promptStart"
               THEN [turn EXCEPT !.phase = "cut"] ELSE turn
    /\ UNCHANGED <<hwPc, hwPayload, ws, call_sid, audio_input_started,
                   receive_task, cap_task, caps, hangups, cleared, lateWrites, interrupted>>
    /\ UNCHANGED sonicVars
    /\ UNCHANGED media
    /\ UNCHANGED ordVars
    /\ UNCHANGED notWs

\* enforce_time_cap, websocket_service.py:66: the channel after the watchdog ran.
ChannelAfterCapLeftOpen == ws

ChannelAfterCap == "closed"

\* enforce_time_cap, websocket_service.py:56-66: the sleep is over; the call
\* is hung up and the channel closed.
CapFires(t) ==
    /\ caps[t].pc = "sleeping" /\ ~caps[t].cancel
    /\ hangups' = IF call_sid THEN hangups + 1 ELSE hangups
    /\ ws' = ChannelAfterCap
    /\ caps' = [caps EXCEPT ![t].pc = "done"]
    /\ UNCHANGED <<hwPc, hwPayload, call_sid, audio_input_started, receive_task,
                   cap_task, relay, cleared, lateWrites, interrupted>>
    /\ UNCHANGED sonicVars
    /\ UNCHANGED <<media, turn>>
    /\ UNCHANGED ordVars
    /\ UNCHANGED notWs

\* A cancelled watchdog is resumed with CancelledError and ends.
CapCancelled(t) ==
    /\ caps[t].cancel
    /\ caps[t].pc = "sleeping"
    /\ caps' = [caps EXCEPT ![t] = [pc |-> "done", cancel |-> FALSE]]
    /\ UNCHANGED <<hwPc, hwPayload, ws, call_sid, audio_input_started,
                   receive_task, cap_task, relay, hangups, cleared, lateWrites, interrupted>>
    /\ UNCHANGED sonicVars
    /\ UNCHANGED <<media, turn>>
    /\ UNCHANGED ordVars
    /\ UNCHANGED notWs

WsNext ==
    \/ PeerCloses
    \/ HwRecvStart
    \/ \E how \in {"ok", "open_fails", "send_fails"} : HwStartSession(how)
    \/ HwStartTasks
    \/ \E kind \in PayloadKinds : HwRecvMedia(kind) /\ UNCHANGED ordVars
    \/ HwCancelRelay
    \/ HwJoinRelay
    \/ \E ok \in BOOLEAN : HwForwardMedia(ok) /\ UNCHANGED ordVars
    \/ HwRecvStop
    \/ \E ok \in BOOLEAN : HwStopFinish(ok)
    \/ HwLoopEnds
    \/ HwCloseSession
    \/ \E t \in RelayIds : RelayBegin(t)
    \/ \E t \in RelayIds, audio \in BOOLEAN : RelayOutput(t, audio)
    \/ \E t \in RelayIds, ok \in BOOLEAN : RelayCompletionEnd(t, ok)
    \/ \E t \in RelayIds, ok \in BOOLEAN : RelayStartAudioInput(t, ok)
    \/ \E t \in RelayIds : RelayWrite(t)
    \/ \E t \in RelayIds : RelayResume(t)
    \/ \E t \in RelayIds : RelayCancelled(t)
    \/ \E t \in CapIds : CapFires(t)
    \/ \E t \in CapIds : CapCancelled(t)

\* The media event the inbound loop reads is the next of the call
\* (websocket_service.py:108, one message at a time in the order of receipt).
MediaNumbered ==
    /\ mediaRead < MaxMedia
    /\ mediaRead' = mediaRead + 1
    /\ UNCHANGED <<audioInputLast, trig>>

AudioInputOfEarlier(n) == IF n > 1 THEN n - 1 ELSE n

\* websocket_service.py:161-166: the payload decoded and sent is that of
\* `data`, the message the loop holds; send_audio_pcm16 is awaited and sends
\* at once (bedrock_service.py:334).
AudioInputOf(n) == n

AudioInputNumbered ==
    /\ audioInputLast' = IF media'.outcome = "forwarded"
                         THEN AudioInputOf(mediaRead) ELSE audioInputLast
    /\ UNCHANGED <<mediaRead, trig>>

\* handle_websocket in a call with one start event, as the telephony service
\* sends one per stream, the media events numbered in the order of reading.
OrdNext ==
    \/ PeerCloses
    \/ ~call_sid /\ HwRecvStart
    \/ \E how \in {"ok", "open_fails", "send_fails"} : HwStartSession(how)
    \/ HwStartTasks
    \/ \E kind \in PayloadKinds : HwRecvMedia(kind) /\ MediaNumbered
    \/ HwCancelRelay
    \/ HwJoinRelay
    \/ \E ok \in BOOLEAN : HwForwardMedia(ok) /\ AudioInputNumbered
    \/ HwRecvStop
    \/ \E ok \in BOOLEAN : HwStopFinish(ok)
    \/ HwLoopEnds
    \/ HwCloseSession
    \/ \E t \in RelayIds : RelayBegin(t)
    \/ \E t \in RelayIds, audio \in BOOLEAN : RelayOutput(t, audio)
    \/ \E t \in RelayIds, ok \in BOOLEAN : RelayCompletionEnd(t, ok)
    \/ \E t \in RelayIds, ok \in BOOLEAN : RelayStartAudioInput(t, ok)
    \/ \E t \in RelayIds : RelayWrite(t)
    \/ \E t \in RelayIds : RelayResume(t)
    \/ \E t \in RelayIds : RelayCancelled(t)
    \/ \E t \in CapIds : CapFires(t)
    \/ \E t \in CapIds : CapCancelled(t)

-----------------------------------------------------------------------------
(* OptimizedWebSocketHandler.handle with its NovaSonicStreamingSession.    *)
(* handle() reads the channel one message at a time and awaits the         *)
(* handling of each (optimized_websocket.py:67-83); the session's          *)
(* operations it awaits are the steps of SessionNext.  The telephony       *)
(* service sends one start event per stream, so one session is built.      *)
(* The background tasks are created only after a start() that returns      *)
(* (lines 134-138).                                                        *)

\* Bound: events the telephony channel delivers in one call.
MaxEvents == 3

\* The events of _process_twilio_messages' dispatch, optimized_websocket.py:76-83.
OptEventKinds == {"start", "media", "stop", "mark"}

\* The session's variables but the record of the call in flight, which the
\* handler clears when it reads its next event.
sessButCall == <<state, stream, streamsOpened, streamsClosed, prompt_name,
                 current_audio_content_name, receiving, user_speaking, content_name,
                 uuidNext, events, pc, startTick, lastStartEntry, raised>>

qButRunning == <<audio_queue, output_buffer, framesOut, receiverAlive, senderPc,
                 senderFrame, sequence, lastSent, qOp, qBefore, outFramed>>

\* OptimizedWebSocketHandler.__init__, optimized_websocket.py:25-52 (self.running
\* is the variable running).
OptHandlerInit ==
    /\ optPc = "recv"
    /\ opt_ws = "open"
    /\ opt_inbox = << >>
    /\ opt_arrived = 0
    /\ opt_startArrived = FALSE
    /\ opt_audio_started = FALSE
    /\ opt_nova_session = FALSE
    /\ opt_tasks = 0
    /\ opt_closeTried = FALSE
    /\ opt_say = "none"
    /\ opt_startFailed = FALSE
    /\ opt_fwd = 0

\* The telephony service sends an event.
OptArrive(kind) ==
    /\ opt_ws = "open"
    /\ opt_arrived < MaxEvents
    /\ kind = "start" => ~opt_startArrived
    /\ opt_inbox' = Append(opt_inbox, kind)
    /\ opt_arrived' = opt_arrived + 1
    /\ opt_startArrived' = (opt_startArrived \/ kind = "start")
    /\ UNCHANGED <<optPc, opt_ws, opt_audio_started, opt_nova_session, opt_tasks,
                   opt_closeTried, opt_say, opt_startFailed, opt_fwd>>
    /\ UNCHANGED sessVars
    /\ UNCHANGED notOpt

\* The peer (or the network) closes the telephony channel.
OptPeerCloses ==
    /\ opt_ws = "open"
    /\ opt_ws' = "peer_closed"
    /\ UNCHANGED <<optPc, opt_inbox, opt_arrived, opt_startArrived, opt_audio_started,
                   opt_nova_session, opt_tasks, opt_closeTried, opt_say,
                   opt_startFailed, opt_fwd>>
    /\ UNCHANGED sessVars
    /\ UNCHANGED notOpt

\* optimized_websocket.py:67-69: iter_text yields the next message.  After the
\* handler's own close() of an open channel no message is delivered; on a
\* channel the peer closed, the messages received before are.
OptMayRead(kind) ==
    /\ optPc = "recv" /\ running
    /\ opt_ws # "closed"
    /\ opt_inbox # << >>
    /\ Head(opt_inbox) = kind

\* _handle_start, optimized_websocket.py:90-120: the session is constructed
\* (built), or its constructor raises (_create_client re-raises,
\* nova_sonic_streaming.py:105-108) and the outer except clause takes over.
OptRecvStart(built) ==
    /\ OptMayRead("start")
    /\ opt_inbox' = Tail(opt_inbox)
    /\ opt_nova_session' = (opt_nova_session \/ built)
    /\ optPc' = IF built THEN "start" ELSE "say2"
    /\ call' = NoCall
    /\ UNCHANGED <<opt_ws, opt_arrived, opt_startArrived, opt_audio_started, opt_tasks,
                   opt_closeTried, opt_say, opt_startFailed, opt_fwd>>
    /\ UNCHANGED sessButCall
    /\ UNCHANGED notOpt

\* _handle_start, optimized_websocket.py:123-142: start() has raised (the
\* fallback follows) or returned (the three tasks are created, audio_started).
OptStartEnds ==
    /\ optPc = "start"
    /\ call.op = "start" /\ call.outcome # "running"
    /\ IF call.outcome = "raised"
       THEN /\ opt_startFailed' = TRUE
            /\ optPc' = "say"
            /\ UNCHANGED <<opt_tasks, opt_audio_started>>
       ELSE /\ opt_tasks' = 3
            /\ opt_audio_started' = TRUE
            /\ optPc' = "recv"
            /\ UNCHANGED opt_startFailed
    /\ UNCHANGED <<opt_ws, opt_inbox, opt_arrived, opt_startArrived, opt_nova_session,
                   opt_closeTried, opt_say, opt_fwd>>
    /\ UNCHANGED sessVars
    /\ UNCHANGED notOpt

\* _send_error_to_twilio, optimized_websocket.py:323-338, called at lines 128
\* and 146: the "say" message is written if the channel takes it (ok); a
\* failure of the send is logged.
OptSay(ok) ==
    /\ optPc \in {"say", "say2"}
    /\ opt_say' = IF opt_ws = "open" /\ ok THEN "sent"
                  ELSE IF opt_say = "sent" THEN "sent" ELSE "refused"
    /\ optPc' = IF optPc = "say" THEN "ws_close" ELSE "ws_close2"
    /\ UNCHANGED <<opt_ws, opt_inbox, opt_arrived, opt_startArrived, opt_audio_started,
                   opt_nova_session, opt_tasks, opt_closeTried, opt_startFailed, opt_fwd>>
    /\ UNCHANGED sessVars
    /\ UNCHANGED notOpt

ChannelAfterCloseLeftOpen(raises) == IF raises THEN "peer_closed" ELSE opt_ws

\* websocket.close(code=1011), optimized_websocket.py:130 and 147: the channel
\* after the call; a close that raises found the connection gone.
ChannelAfterClose(raises) == IF raises THEN "peer_closed" ELSE "closed"

\* optimized_websocket.py:130-131 and 147.  On an open channel close() closes
\* it, or raises with the connection lost; on a channel the peer closed it
\* returns or raises.  The first close's exception reaches the outer except
\* clause (line 144), the second's the reader's (line 87).
OptCloseChannel(raises) ==
    /\ optPc \in {"ws_close", "ws_close2"}
    /\ opt_closeTried' = TRUE
    /\ opt_ws' = IF opt_ws = "open" THEN ChannelAfterClose(raises) ELSE opt_ws
    /\ optPc' = IF raises /\ optPc = "ws_close" THEN "say2" ELSE "recv"
    /\ UNCHANGED <<opt_inbox, opt_arrived, opt_startArrived, opt_audio_started,
                   opt_nova_session, opt_tasks, opt_say, opt_startFailed, opt_fwd>>
    /\ UNCHANGED sessVars
    /\ UNCHANGED notOpt

\* _handle_media, optimized_websocket.py:149-178: the event is dropped unless
\* audio_started and nova_session are set; else, if it has a payload and
\* process_incoming returns a frame (sends), the frame is handed to send_audio.
OptRecvMedia(sends, ok) ==
    /\ OptMayRead("media")
    /\ opt_inbox' = Tail(opt_inbox)
    /\ IF ~opt_audio_started \/ ~opt_nova_session \/ ~sends
       THEN /\ call' = NoCall
            /\ UNCHANGED sessButCall
            /\ UNCHANGED opt_fwd
       ELSE /\ SendAudioCall(ok)
            /\ opt_fwd' = opt_fwd + 1
    /\ UNCHANGED <<optPc, opt_ws, opt_arrived, opt_startArrived, opt_audio_started,
                   opt_nova_session, opt_tasks, opt_closeTried, opt_say, opt_startFailed>>
    /\ UNCHANGED notOpt

\* _handle_stop, optimized_websocket.py:180-186: finish_user_turn is awaited
\* if a session was built.
OptRecvStop ==
    /\ OptMayRead("stop")
    /\ opt_inbox' = Tail(opt_inbox)
    /\ optPc' = IF opt_nova_session THEN "stop" ELSE "recv"
    /\ call' = NoCall
    /\ UNCHANGED <<opt_ws, opt_arrived, opt_startArrived, opt_audio_started,
                   opt_nova_session, opt_tasks, opt_closeTried, opt_say,
                   opt_startFailed, opt_fwd>>
    /\ UNCHANGED sessButCall
    /\ UNCHANGED notOpt

\* optimized_websocket.py:186: finish_user_turn has returned.
OptStopEnds ==
    /\ optPc = "stop"
    /\ call.op = "finish_user_turn" /\ call.outcome = "returned" /\ pc = "idle"
    /\ optPc' = "recv"
    /\ UNCHANGED <<opt_ws, opt_inbox, opt_arrived, opt_startArrived, opt_audio_started,
                   opt_nova_session, opt_tasks, opt_closeTried, opt_say,
                   opt_startFailed, opt_fwd>>
    /\ UNCHANGED sessVars
    /\ UNCHANGED notOpt

\* _handle_mark, optimized_websocket.py:188-192: the mark is logged.
OptRecvMark ==
    /\ OptMayRead("mark")
    /\ opt_inbox' = Tail(opt_inbox)
    /\ call' = NoCall
    /\ UNCHANGED <<optPc, opt_ws, opt_arrived, opt_startArrived, opt_audio_started,
                   opt_nova_session, opt_tasks, opt_closeTried, opt_say,
                   opt_startFailed, opt_fwd>>
    /\ UNCHANGED sessButCall
    /\ UNCHANGED notOpt

\* optimized_websocket.py:67-69 and 56-63: the iteration ends (the channel is
\* closed and nothing is left to deliver, or a receive after the handler's
\* close() raises) and handle() reaches its finally clause.
OptLoopEnds ==
    /\ optPc = "recv"
    /\ \/ ~running
       \/ opt_ws = "closed"
       \/ opt_ws = "peer_closed" /\ (opt_inbox = << >> \/ opt_closeTried)
    /\ optPc' = "cleanup"
    /\ UNCHANGED <<opt_ws, opt_inbox, opt_arrived, opt_startArrived, opt_audio_started,
                   opt_nova_session, opt_tasks, opt_closeTried, opt_say,
                   opt_startFailed, opt_fwd>>
    /\ UNCHANGED sessVars
    /\ UNCHANGED notOpt

\* _cleanup, optimized_websocket.py:340-357: running is cleared, the tasks
\* are cancelled and awaited, and the session, if one was built, is closed.
OptCleanup ==
    /\ optPc = "cleanup"
    /\ running' = FALSE
    /\ optPc' = IF opt_nova_session THEN "close" ELSE "done"
    /\ call' = NoCall
    /\ UNCHANGED <<opt_ws, opt_inbox, opt_arrived, opt_startArrived, opt_audio_started,
                   opt_nova_session, opt_tasks, opt_closeTried, opt_say,
                   opt_startFailed, opt_fwd>>
    /\ UNCHANGED sessButCall
    /\ UNCHANGED qButRunning
    /\ UNCHANGED <<vadVars, wsVars>>

\* optimized_websocket.py:357: nova_session.close() has returned.
OptCloseEnds ==
    /\ optPc = "close"
    /\ call.op = "close" /\ call.outcome = "returned" /\ pc = "idle"
    /\ optPc' = "done"
    /\ UNCHANGED <<opt_ws, opt_inbox, opt_arrived, opt_startArrived, opt_audio_started,
                   opt_nova_session, opt_tasks, opt_closeTried, opt_say,
                   opt_startFailed, opt_fwd>>
    /\ UNCHANGED sessVars
    /\ UNCHANGED notOpt

\* The session operation the handler awaits has not been entered yet.
OptCalls(at) == optPc = at /\ call.op = "none"

OptNext ==
    \/ \E kind \in OptEventKinds : OptArrive(kind)
    \/ OptPeerCloses
    \/ \E built \in BOOLEAN : OptRecvStart(built)
    \/ OptCalls("start") /\ StartBegin
    \/ \E ok \in BOOLEAN : optPc = "start" /\ StartOpen(ok)
    \/ \E ok \in BOOLEAN : optPc = "start" /\ StartSend(ok)
    \/ \E ok \in BOOLEAN : optPc = "start" /\ StartAudioContent(ok)
    \/ OptStartEnds
    \/ \E ok \in BOOLEAN : OptSay(ok)
    \/ \E raises \in BOOLEAN : OptCloseChannel(raises)
    \/ \E sends \in BOOLEAN, ok \in BOOLEAN : OptRecvMedia(sends, ok)
    \/ OptRecvStop
    \/ OptCalls("stop") /\ FinishUserTurnBegin
    \/ \E ok \in BOOLEAN : optPc = "stop" /\ FinishUserTurnSend(ok)
    \/ OptStopEnds
    \/ OptRecvMark
    \/ OptLoopEnds
    \/ OptCleanup
    \/ OptCalls("close") /\ CloseBegin
    \/ \E ok \in BOOLEAN : optPc = "close" /\ CloseSend(ok)
    \/ \E ok \in BOOLEAN : optPc = "close" /\ CloseRelease(ok)
    \/ OptCloseEnds

-----------------------------------------------------------------------------
(* Specifications *)

\* Every component as constructed.
Init ==
    /\ AudioProcessorInit /\ HandlerInit /\ SessionInit /\ HandleWebsocketInit
    /\ OptHandlerInit

SpecVAD == Init /\ [][VadNext]_vars

SpecQueue == Init /\ [][QueueNext]_vars

SpecSession == Init /\ [][SessionNext]_vars

SpecWS == Init /\ [][WsNext]_vars

SpecOrd == Init /\ [][OrdNext]_vars

\* handle_websocket when the peer sends start events and nothing else: the
\* reader, the relay tasks and the watchdogs.  The event loop runs every task
\* that is ready (the reader's steps, a cancelled task's resumption) and the
\* watchdog's sleep ends; when the peer or the model sends is not constrained.
CapNext ==
    \/ PeerCloses
    \/ HwRecvStart
    \/ \E how \in {"ok", "open_fails", "send_fails"} : HwStartSession(how)
    \/ HwStartTasks
    \/ HwLoopEnds
    \/ HwCloseSession
    \/ \E t \in RelayIds : RelayBegin(t)
    \/ \E t \in RelayIds, audio \in BOOLEAN : RelayOutput(t, audio)
    \/ \E t \in RelayIds, ok \in BOOLEAN : RelayCompletionEnd(t, ok)
    \/ \E t \in RelayIds, ok \in BOOLEAN : RelayStartAudioInput(t, ok)
    \/ \E t \in RelayIds : RelayWrite(t)
    \/ \E t \in RelayIds : RelayResume(t)
    \/ \E t \in RelayIds : RelayCancelled(t)
    \/ \E t \in CapIds : CapFires(t)
    \/ \E t \in CapIds : CapCancelled(t)

SpecCap ==
    /\ Init /\ [][CapNext]_vars
    /\ WF_vars(\E how \in {"ok", "open_fails", "send_fails"} : HwStartSession(how))
    /\ WF_vars(HwStartTasks)
    /\ WF_vars(HwLoopEnds)
    /\ WF_vars(HwCloseSession)
    /\ \A t \in RelayIds : WF_vars(RelayCancelled(t))
    /\ \A t \in CapIds : WF_vars(CapFires(t)) /\ WF_vars(CapCancelled(t))

\* handle_websocket as in SpecCap, with a model transport whose receive may
\* raise.  A task takes a step only while the event loop is not held.
RecvNext ==
    \/ Running /\ PeerCloses
    \/ Running /\ HwRecvStart
    \/ Running /\ \E how \in {"ok", "open_fails", "send_fails"} : HwStartSession(how)
    \/ Running /\ HwStartTasks
    \/ Running /\ HwLoopEnds
    \/ Running /\ HwCloseSession
    \/ Running /\ \E t \in RelayIds : RelayBegin(t)
    \/ Running /\ \E t \in RelayIds, audio \in BOOLEAN : RelayOutput(t, audio)
    \/ Running /\ \E t \in RelayIds, ok \in BOOLEAN : RelayCompletionEnd(t, ok)
    \/ Running /\ \E t \in RelayIds, ok \in BOOLEAN : RelayStartAudioInput(t, ok)
    \/ Running /\ \E t \in RelayIds : RelayWrite(t)
    \/ Running /\ \E t \in RelayIds : RelayResume(t)
    \/ Running /\ \E t \in RelayIds, suspends \in BOOLEAN : RelayRecvFails(t, suspends)
    \/ Running /\ \E t \in RelayIds : RelayRetry(t)
    \/ Running /\ \E t \in RelayIds : RelayCancelled(t)
    \/ Running /\ \E t \in CapIds : CapFires(t)
    \/ Running /\ \E t \in CapIds : CapCancelled(t)

SpecRecv ==
    /\ Init /\ [][RecvNext]_vars
    /\ WF_vars(Running /\ \E how \in {"ok", "open_fails", "send_fails"} : HwStartSession(how))
    /\ WF_vars(Running /\ HwStartTasks)
    /\ WF_vars(Running /\ HwLoopEnds)
    /\ WF_vars(Running /\ HwCloseSession)
    /\ \A t \in RelayIds :
          /\ WF_vars(Running /\ RelayBegin(t))
          /\ WF_vars(Running /\ RelayWrite(t))
          /\ WF_vars(Running /\ RelayResume(t))
          /\ WF_vars(Running /\ RelayRetry(t))
          /\ WF_vars(Running /\ RelayCancelled(t))
    /\ \A t \in CapIds :
          /\ WF_vars(Running /\ CapFires(t))
          /\ WF_vars(Running /\ CapCancelled(t))

\* OptimizedWebSocketHandler.handle: the event loop runs the handler whenever
\* it is ready, every awaited session operation and channel operation
\* completes, and the iteration over a closed channel ends.  When the peer
\* sends or hangs up is not constrained.
SpecOpt ==
    /\ Init /\ [][OptNext]_vars
    /\ WF_vars(\E built \in BOOLEAN : OptRecvStart(built))
    /\ WF_vars(OptCalls("start") /\ StartBegin)
    /\ WF_vars(\E ok \in BOOLEAN : optPc = "start" /\ StartOpen(ok))
    /\ WF_vars(\E ok \in BOOLEAN : optPc = "start" /\ StartSend(ok))
    /\ WF_vars(\E ok \in BOOLEAN : optPc = "start" /\ StartAudioContent(ok))
    /\ WF_vars(OptStartEnds)
    /\ WF_vars(\E ok \in BOOLEAN : OptSay(ok))
    /\ WF_vars(\E raises \in BOOLEAN : OptCloseChannel(raises))
    /\ WF_vars(\E sends \in BOOLEAN, ok \in BOOLEAN : OptRecvMedia(sends, ok))
    /\ WF_vars(OptRecvStop)
    /\ WF_vars(OptCalls("stop") /\ FinishUserTurnBegin)
    /\ WF_vars(\E ok \in BOOLEAN : optPc = "stop" /\ FinishUserTurnSend(ok))
    /\ WF_vars(OptStopEnds)
    /\ WF_vars(OptRecvMark)
    /\ WF_vars(OptLoopEnds)
    /\ WF_vars(OptCleanup)
    /\ WF_vars(OptCalls("close") /\ CloseBegin)
    /\ WF_vars(\E ok \in BOOLEAN : optPc = "close" /\ CloseSend(ok))
    /\ WF_vars(\E ok \in BOOLEAN : optPc = "close" /\ CloseRelease(ok))
    /\ WF_vars(OptCloseEnds)

-----------------------------------------------------------------------------

(* C5: from a fresh AudioProcessor, while every evaluated frame is above   *)
(* the threshold, is_speaking is false after each of the first 12 frames   *)
(* and true from the 13th on.                                              *)
C5_SpeechOnThirteenth ==
    onlySpeech => (is_speaking <=> framesProcessed >= 13)

(* C6: from is_speaking with the silence counter at zero, while every      *)
(* evaluated frame is at or below the threshold, is_speaking stays true    *)
(* after each of the first 34 frames and is false on the 35th.             *)
C6_SilenceOnThirtyFifth ==
    (runFromSpeaking /\ belowRun >= 1 /\ belowRun <= 35)
        => (is_speaking <=> belowRun <= 34)

C6_Witness ==
    runFromSpeaking /\ belowRun = 35 /\ ~is_speaking

(* C1: at most one relay_model_audio task is active (created and not yet   *)
(* finished) at any time.                                                  *)
C1_AtMostOneRelay ==
    Cardinality(ActiveRelays) <= 1

C1_Witness ==
    interrupted /\ receive_task \in ActiveRelays

(* C2: once the clear message of an interruption has been written, the     *)
(* interrupted relay task writes no further media or mark message.         *)
C2_NoWriteAfterClear ==
    ~lateWrites

\* The frames lo .. hi in order.
FrameRange(lo, hi) == [i \in 1..(hi - lo + 1) |-> lo + i - 1]

(* C3: audio_queue never holds more than 50 frames.                        *)
C3_QueueBounded ==
    Len(audio_queue) <= 50

C3_Witness ==
    Len(audio_queue) = 50 /\ qOp = "put_full"

(* C4: a frame enqueued onto a full queue evicts the oldest frame and goes *)
(* to the tail, the others keeping their order; frames 1..51 pushed with   *)
(* no consumer step leave frames 2..51.                                    *)
C4_OldestEvicted ==
    /\ qOp = "put_full" =>
          /\ Len(audio_queue) = Len(qBefore)
          /\ audio_queue[Len(audio_queue)] = framesOut
          /\ \A i \in 1..(Len(audio_queue) - 1) : audio_queue[i] = qBefore[i + 1]
    /\ (framesOut = 51 /\ sequence = 0 /\ senderPc = "get") =>
          audio_queue = FrameRange(2, 51)

C4_Witness ==
    qOp = "put_full" /\ framesOut = 51 /\ sequence = 0 /\ senderPc = "get"

\* The events the caller's current or last call has emitted so far.
CallEvents == SubSeq(events, call.from + 1, Len(events))

\* A call of op that has ended.
Ended(op) == call.op = op /\ call.outcome # "running"

(* C7: send_audio or finish_user_turn called with state IDLE or CLOSED     *)
(* raises nothing and emits no event.                                      *)
C7_IdleClosedSilent ==
    (call.op \in {"send_audio", "finish_user_turn"} /\ call.entry \in {"IDLE", "CLOSED"})
        => (call.outcome # "raised" /\ CallEvents = << >>)

(* C8: start() invoked in a state other than IDLE opens no transport,      *)
(* emits no event, raises nothing and leaves state, prompt identifier and  *)
(* audio-content identifier unchanged.                                     *)
C8_StartNoopOutsideIdle ==
    [][(startTick' # startTick /\ state # "IDLE")
         => UNCHANGED <<state, stream, streamsOpened, prompt_name,
                        current_audio_content_name, events, raised,
                        receiving, user_speaking>>]_vars

C8_Witness ==
    lastStartEntry = "CLOSING" /\ state = "CLOSING"

(* C9: start() called in IDLE on a transport that opens and accepts every  *)
(* send returns normally with state READY, receiving enabled and one user  *)
(* audio block open.                                                       *)
C9_StartReachesReady ==
    (Ended("start") /\ ~call.fault)
        => /\ call.outcome = "returned"
           /\ state = "READY"
           /\ receiving
           /\ current_audio_content_name # 0

\* The six events of a start under prompt p with system block cn and user block an.
StartSequence(p, cn, an) ==
    << Ev("sessionStart", 0, 0, "", "", FALSE),
       Ev("promptStart", p, 0, "", "", FALSE),
       Ev("contentStart", p, cn, "SYSTEM", "TEXT", FALSE),
       Ev("textInput", p, cn, "", "", FALSE),
       Ev("contentEnd", p, cn, "", "TEXT", FALSE),
       Ev("contentStart", p, an, "USER", "AUDIO", TRUE) >>

C11_FailedStartIdleAndRetry ==
    [][/\ (call'.op = "start" /\ call'.outcome # "running" /\ call'.fault)
            => (state' = "IDLE" /\ call'.outcome = "raised")
       /\ (startTick' # startTick /\ state = "IDLE")
            => (state' = "STARTING" /\ pc' = "open")]_vars

C11_Witness ==
    /\ raised = 1 /\ stream = 0 /\ streamsOpened = 1
    /\ call.op = "start" /\ call.outcome = "running" /\ state = "STARTING"

\* The changes of state the chain of StreamingState and the failure edge allow.
StateEdges ==
    { <<"IDLE", "STARTING">>, <<"STARTING", "READY">>, <<"READY", "STREAMING">>,
      <<"READY", "CLOSING">>, <<"STREAMING", "CLOSING">>, <<"CLOSING", "CLOSED">>,
      <<"STARTING", "IDLE">> }

(* C12: every change of state is an edge of the chain                      *)
(* IDLE, STARTING, READY, STREAMING, CLOSING, CLOSED (with READY to        *)
(* CLOSING) or the failure edge STARTING to IDLE; CLOSED is never left.    *)
C12_StateChain ==
    [][state' # state => <<state, state'>> \in StateEdges]_vars

(* C13: close() called on a session that is already CLOSED emits no event, *)
(* raises nothing and leaves the session CLOSED with the transport         *)
(* released.                                                               *)
C13_SecondCloseNoop ==
    (call.op = "close" /\ call.entry = "CLOSED")
        => /\ call.outcome = "returned"
           /\ CallEvents = << >>
           /\ state = "CLOSED"
           /\ stream = 0

C13_Witness ==
    call.op = "close" /\ call.entry = "CLOSED" /\ streamsClosed # {}

\* a is an initial part of b.
IsPrefix(a, b) == Len(a) <= Len(b) /\ SubSeq(b, 1, Len(a)) = a

\* The events of a close under prompt p that finds user block b open (0: none).
CloseSequence(p, b) ==
    IF b # 0
    THEN << Ev("contentEnd", p, b, "", "AUDIO", FALSE),
            Ev("promptEnd", p, 0, "", "", FALSE),
            Ev("sessionEnd", 0, 0, "", "", FALSE) >>
    ELSE << Ev("sessionEnd", 0, 0, "", "", FALSE) >>

OpenUserBlocks ==
    { events[i].contentName : i \in
        { j \in 1..Len(events) :
            /\ events[j].type = "contentStart"
            /\ events[j].role = "USER" /\ events[j].ctype = "AUDIO"
            /\ \A k \in 1..Len(events) :
                  ~(events[k].type = "contentEnd"
                      /\ events[k].contentName = events[j].contentName) } }

(* C19: at most one user audio content block is open at the protocol       *)
(* level: the USER AUDIO blocks with a contentStart emitted and no         *)
(* contentEnd emitted number at most one.                                  *)
C19_AtMostOneUserBlock ==
    Cardinality(OpenUserBlocks) <= 1


(* C15: when the session's close() is invoked at teardown, every relay     *)
(* task and every watchdog created for the call has finished, so that no   *)
(* task of the call takes a step afterwards.                               *)
C15_TasksEndedBeforeClose ==
    hwPc = "done" =>
        /\ \A t \in RelayIds : relay[t].pc \in {"none", "done"}
        /\ \A t \in CapIds : caps[t].pc \in {"none", "done"}

(* C16: after a start event, the watchdog whose sleep ends issues the      *)
(* hangup request and closes the telephony channel; with one watchdog the  *)
(* request is issued at most once; a sleeping watchdog leads to a hangup   *)
(* unless the channel is closed first, and the hangup leads to the         *)
(* teardown of the call (no relay task active, session closed).            *)
C16_WatchdogHangsUpOnce ==
    /\ [](hangups >= 1 => ws = "closed")
    /\ [](CapsCreated <= 1 => hangups <= 1)
    /\ ((\E t \in CapIds : caps[t].pc = "sleeping") ~> (hangups >= 1 \/ ws = "closed"))
    /\ (hangups >= 1 ~> (hwPc = "done" /\ ~sonic_active /\ ActiveRelays = {}))

C16_Witness ==
    /\ hangups = 1 /\ CapsCreated = 1 /\ ws = "closed"
    /\ hwPc = "done" /\ sonic_session_started /\ ~sonic_active

(* C17: the payload of a media event that interrupted the relay task is    *)
(* forwarded to the model as an audioInput event of the open user audio    *)
(* block (unless the transport refuses the send).                          *)
C17_InterruptingFrameForwarded ==
    (media.interrupt /\ media.kind = "good" /\ media.outcome \notin {"pending", "refused"})
        => media.outcome = "forwarded"

(* C18: a media event is handled as an interruption (clear written, relay  *)
(* task cancelled) only if it carries audio.                               *)
C18_InterruptionOnlyOnSpeech ==
    hwPc \in {"clear_sent", "join"} => hwPayload

(* C20: a completionEnd taken by recv_loop while the call is live is       *)
(* handled to its end: a fresh prompt name, promptStart for it, then       *)
(* contentStart for a new user audio block under the new prompt.           *)
C20_CompletionReopensTurn ==
    /\ turn.phase = "cut" => hwPc \in {"gather", "done"}
    /\ turn.phase = "done" =>
          /\ Len(turn.log) = 2
          /\ turn.log[1].type = "promptStart"
          /\ turn.log[1].promptName # turn.prev
          /\ turn.log[2].type = "contentStart"
          /\ turn.log[2].promptName = turn.log[1].promptName
          /\ turn.log[2].contentName # 0


\* The events of a finish_user_turn under prompt p that ends user block b.
FinishSequence(p, b) ==
    << Ev("contentEnd", p, b, "", "AUDIO", FALSE),
       Ev("promptEnd", p, 0, "", "", FALSE) >>

C29_CloseNeverRaises ==
    [][/\ (call.op = "close" /\ call.outcome = "running")
            => (state = "CLOSING" /\ raised' = raised /\ call'.op = "close"
                    /\ call'.outcome \in {"running", "returned"})
       /\ (call'.op = "close" /\ call'.outcome # "running")
            => (call'.outcome = "returned" /\ state' = "CLOSED" /\ stream' = 0)]_vars

C29_Witness ==
    /\ call.op = "close" /\ call.outcome = "returned" /\ call.open /\ call.fault
    /\ call.block # 0 /\ CallEvents = << >>
    /\ streamsOpened = 1 /\ streamsClosed = {}
    /\ state = "CLOSED" /\ stream = 0

(* C24: a media event whose payload does not decode leaves the call        *)
(* running: the inbound loop goes on to its next read, no audioInput is    *)
(* sent for the event, and the event changes nothing of the handler: no    *)
(* clear message is written and no relay task is cancelled for it.         *)
C24_UndecodableFrameDropped ==
    media.kind = "bad" =>
        /\ hwPc \in {"clear_sent", "join", "media_payload", "recv"}
        /\ media.outcome \in {"pending", "dropped"}
        /\ ~media.interrupt

\* The events of a close() of a session under prompt p that finds user block b open.
SonicCloseSequence(p, b) ==
    IF b # 0
    THEN << SonicEv("contentEnd", p, b), SonicEv("promptEnd", p, 0),
            SonicEv("sessionEnd", 0, 0) >>
    ELSE << SonicEv("sessionEnd", 0, 0) >>

(* C25: SonicSession.close() called on an active session has sent, when    *)
(* the transport is released, contentEnd and promptEnd for an open user    *)
(* audio block and sessionEnd in every case.                               *)
C25_SonicCloseEvents ==
    (sonic_closeCall.called /\ sonic_closeCall.active)
        => sonic_closeCall.events
              = SonicCloseSequence(sonic_prompt_name, sonic_closeCall.block)

(* C26: once session.start() has raised in the handling of a start event,  *)
(* the inbound loop does not go back to reading telephony events from an   *)
(* open channel: the channel is closed and the loop ends.                  *)
C26_FailedStartEndsCall ==
    (call_sid /\ ~sonic_active /\ hwPc = "recv") => ws = "closed"

(* C28: after an interruption has cancelled the relay task, whenever the   *)
(* session has its next turn open (a user audio block opened after         *)
(* completionEnd) and the inbound loop waits for the next telephony event  *)
(* of a live call, a relay task is pending.                                *)
C28_RelayRecreatedAfterInterruption ==
    (interrupted /\ hwPc = "recv" /\ ws = "open" /\ sonic_active
        /\ sonic_content_name # 0)
        => RelayIsActive

(* C27: every call whose telephony channel connected is ended: the        *)
(* channel is eventually closed (by the watchdog if by nothing else),      *)
(* whether or not a start event arrived and whether or not the session     *)
(* started.                                                                *)
C27_WatchdogBoundsEveryCall ==
    <>(ws = "closed")

(* C23: a relay task whose receive from the model transport keeps raising  *)
(* does not go on retrying for ever: the task ends and the teardown of the *)
(* call runs to its end.                                                   *)
C23_RecvFailureEndsCall ==
    \A t \in RelayIds :
        []<>(relay[t].pc \in {"retry", "spin"}) => <>(RelayDone(t) /\ hwPc = "done")

C22_FailedStartFallback ==
    /\ [](opt_startFailed =>
            /\ opt_tasks = 0 /\ ~opt_audio_started /\ opt_fwd = 0
            /\ \A i \in 1..Len(events) : events[i].type # "audioInput"
            /\ opt_closeTried => opt_say # "none"
            /\ optPc \notin {"say", "ws_close", "say2", "ws_close2"} =>
                  opt_closeTried /\ opt_ws # "open")
    /\ (opt_startFailed ~>
            (optPc = "done" /\ state = "CLOSED" /\ stream = 0 /\ ~running))

C22_Witness ==
    /\ optPc = "done" /\ opt_startFailed
    /\ opt_say = "sent" /\ opt_ws = "closed"
    /\ state = "CLOSED" /\ stream = 0 /\ streamsOpened = 1
    /\ opt_inbox # << >> /\ Head(opt_inbox) = "media"

(* C31: a call of process_incoming that evaluates a frame returns the frame *)
(* exactly when is_speaking is true after the evaluation, a call that      *)
(* evaluates none returns nothing, and as long as every frame evaluated    *)
(* since construction was at or below the threshold nothing has been       *)
(* returned (so not after 20 silent frames either).                        *)
C31_ForwardIffSpeaking ==
    [][/\ framesProcessed' = framesProcessed + 1 =>
            (vadOut' = "frame" <=> is_speaking')
       /\ framesProcessed' = framesProcessed => vadOut' = "none"
       /\ belowRun' = framesProcessed' => (vadOut' = "none" /\ ~is_speaking')]_vars

C31_Witness ==
    /\ vadOut = "frame" /\ is_speaking
    /\ framesProcessed = 20 + SPEECH_FRAMES_THRESHOLD
    /\ speech_frames = SPEECH_FRAMES_THRESHOLD

(* C33: is_speaking turns true only on a frame that completes a run of at  *)
(* least SPEECH_FRAMES_THRESHOLD above-threshold frames, and false only on *)
(* a frame that completes a run of at least SILENCE_FRAMES_THRESHOLD       *)
(* at-or-below frames; the first frame of a run sets the counter of the    *)
(* other class to zero and leaves is_speaking as it was.                   *)
C33_Hysteresis ==
    [][/\ (~is_speaking /\ is_speaking') => aboveRun' >= SPEECH_FRAMES_THRESHOLD
       /\ (is_speaking /\ ~is_speaking') => belowRun' >= SILENCE_FRAMES_THRESHOLD
       /\ (framesProcessed' # framesProcessed /\ aboveRun' = 1) =>
             (silence_frames' = 0 /\ speech_frames' = 1 /\ is_speaking' = is_speaking)
       /\ (framesProcessed' # framesProcessed /\ belowRun' = 1) =>
             (speech_frames' = 0 /\ silence_frames' = 1 /\ is_speaking' = is_speaking)]_vars

C33_Witness ==
    /\ is_speaking /\ aboveRun = 1 /\ silence_frames = 0
    /\ framesProcessed = SPEECH_FRAMES_THRESHOLD + SILENCE_FRAMES_THRESHOLD

(***************************************************************************)
(* SonicSession.trigger_initial_response, bedrock_service.py:122-193, one  *)
(* step per awaited send.                                                  *)
(***************************************************************************)

\* An event of the empty user turn: type, prompt, content name, role and
\* the text carried ("" for an empty text, "-" for an event without text).
TriggerEv(type, p, c, role, content) ==
    [type |-> type, promptName |-> p, contentName |-> c, role |-> role,
     content |-> content]

\* bedrock_service.py:128-187: the event sent at each position.
TriggerEventAt(at, p, c) ==
    CASE at = "contentStart" -> TriggerEv("contentStart", p, c, "USER", "-")
      [] at = "textInput" -> TriggerEv("textInput", p, c, "", "")
      [] at = "contentEnd" -> TriggerEv("contentEnd", p, c, "", "-")
      [] OTHER -> TriggerEv("promptEnd", p, 0, "", "-")

TriggerSendPoints == {"contentStart", "textInput", "contentEnd", "promptEnd"}

TriggerPcAfterEndsPromptFirst(at, ok) ==
    CASE at = "contentStart" /\ ok -> "textInput"
      [] at = "textInput" /\ ok -> "promptEnd"
      [] at = "promptEnd" /\ ok -> "contentEnd"
      [] OTHER -> "returned"

\* bedrock_service.py:128-166 and 176-187: contentStart, textInput and
\* contentEnd are sent inside _send_empty_user_turn, whose except clause logs
\* a failed send and returns; promptEnd is sent after it in either case.
TriggerPcAfter(at, ok) ==
    CASE at = "contentStart" /\ ok -> "textInput"
      [] at = "textInput" /\ ok -> "contentEnd"
      [] at = "promptEnd" -> "returned"
      [] OTHER -> "promptEnd"

\* websocket_service.py:126: the call after a successful start(); a caller
\* may also call it on a session never started. bedrock_service.py:171-173:
\* without session_started the call logs and returns; bedrock_service.py:126:
\* user_content_name = str(uuid.uuid4()), a name no other block has.
TriggerBegin ==
    /\ \/ hwPc = "start_trigger" /\ trig.of # sonic_streamsOpened
       \/ hwPc = "recv" /\ ~sonic_session_started /\ trig.pc = "idle"
    /\ trig' = IF sonic_session_started
               THEN [pc |-> "contentStart", name |-> 100 + sonic_streamsOpened,
                     log |-> <<>>, started |-> TRUE, refused |-> FALSE,
                     of |-> sonic_streamsOpened]
               ELSE [pc |-> "returned", name |-> 0, log |-> <<>>,
                     started |-> FALSE, refused |-> FALSE,
                     of |-> sonic_streamsOpened]
    /\ UNCHANGED <<mediaRead, audioInputLast>>
    /\ UNCHANGED <<hwVars, sonicVars>>
    /\ UNCHANGED notWs

\* One awaited _send_event of the call (bedrock_service.py:523-537): nothing
\* is sent without a stream or with active False; a send the transport
\* refuses raises.
TriggerSend(ok) ==
    /\ trig.pc \in TriggerSendPoints
    /\ LET suppressed == SonicSuppressed(sonic_active, sonic_stream)
           ev == TriggerEventAt(trig.pc, sonic_prompt_name, trig.name)
       IN trig' = [trig EXCEPT
                     !.pc = TriggerPcAfter(trig.pc, ok \/ suppressed),
                     !.log = IF ok /\ ~suppressed THEN Append(@, ev) ELSE @,
                     !.refused = @ \/ ~(ok /\ ~suppressed)]
    /\ UNCHANGED <<mediaRead, audioInputLast>>
    /\ UNCHANGED <<hwVars, sonicVars>>
    /\ UNCHANGED notWs

TriggerReturned == trig.pc = "returned" /\ trig.of = sonic_streamsOpened

\* handle_websocket reading start events, each successful start followed by
\* trigger_initial_response sent event by event.
TrigNext ==
    \/ PeerCloses
    \/ HwRecvStart
    \/ \E how \in {"ok", "open_fails", "send_fails"} : HwStartSession(how)
    \/ TriggerBegin
    \/ \E ok \in BOOLEAN : TriggerSend(ok)
    \/ TriggerReturned /\ HwStartTasks
    \/ HwLoopEnds
    \/ HwCloseSession

SpecTrig == Init /\ [][TrigNext]_vars

\* The events of a whole empty user turn followed by the end of the prompt.
TriggerSequence(p, c) ==
    <<TriggerEv("contentStart", p, c, "USER", "-"),
      TriggerEv("textInput", p, c, "", ""),
      TriggerEv("contentEnd", p, c, "", "-"),
      TriggerEv("promptEnd", p, 0, "", "-")>>

TriggerRank(type) ==
    CASE type = "contentStart" -> 1 [] type = "textInput" -> 2
      [] type = "contentEnd" -> 3 [] OTHER -> 4

(* C34: trigger_initial_response on a started session whose sends are all  *)
(* accepted has emitted, when it returns, contentStart of a new USER block,*)
(* an empty text for it, contentEnd of the same content name and then      *)
(* promptEnd of the current prompt; at every moment the events emitted so  *)
(* far are in that order, the block's events carry the one content name,   *)
(* and no contentEnd is emitted without the block's earlier events; on a   *)
(* session not started the call emits nothing.                             *)
C34_TriggerInitialResponseOrder ==
    /\ (trig.pc = "returned" /\ trig.started /\ ~trig.refused) =>
          trig.log = TriggerSequence(sonic_prompt_name, trig.name)
    /\ \A i, j \in 1..Len(trig.log) :
          i < j => TriggerRank(trig.log[i].type) < TriggerRank(trig.log[j].type)
    /\ \A i \in 1..Len(trig.log) :
          /\ trig.log[i].promptName = sonic_prompt_name
          /\ trig.log[i].type # "promptEnd" => trig.log[i].contentName = trig.name
          /\ trig.log[i].type # "promptEnd" => TriggerRank(trig.log[i].type) = i
          /\ trig.log[i] = TriggerEventAt(trig.log[i].type, sonic_prompt_name, trig.name)
    /\ ~trig.started => trig.log = <<>>

C34_Witness ==
    /\ trig.pc = "returned" /\ trig.started /\ ~trig.refused
    /\ Len(trig.log) = 4 /\ trig.log[4].type = "promptEnd"
    /\ sonic_session_started /\ hwPc = "recv" /\ audio_input_started

(* C36: after every process_outgoing call fewer than FRAME_SIZE_BYTES      *)
(* bytes remain in output_buffer, whatever the sizes of the chunks.        *)
C36_OutputBufferBelowFrame ==
    output_buffer < FRAME_SIZE_BYTES

(***************************************************************************)
(* Framing: process_incoming and process_outgoing with the bytes handed in *)
(* and the buffers returned kept as offsets into the input.                *)
(***************************************************************************)

\* Bounds: frames process_incoming evaluates / process_outgoing returns.
MaxFramedIn == 14
MaxFramedOut == 3

\* audio_processor.py:178-191, _reduce_noise: each of the frame's int16
\* samples whose magnitude is at most noise_gate_threshold (0.02 of full
\* scale) becomes 0, the others are kept; the frame keeps its length.  quiet:
\* the frame has such a sample that is not 0 already.
ReduceNoise(frame, quiet) == [frame EXCEPT !.asInput = ~quiet]

\* The call's bookkeeping: `size` bytes arrive, `cut` bytes leave the front of
\* the buffer, `ret` is returned.
FramingAfter(f, size, cut, ret) ==
    [arrived |-> f.arrived + size,
     taken |-> f.taken + cut,
     buffered |-> f.arrived + size - f.taken,
     ret |-> ret,
     prevEnd |-> f.lastEnd,
     lastEnd |-> IF ret.len > 0 THEN ret.from + ret.len ELSE f.lastEnd]

\* audio_processor.py:120-123: fewer than FRAME_SIZE_BYTES buffered, None.
InFramedShort(size) ==
    inFramed' = FramingAfter(inFramed, size, 0, NoFrame)

\* audio_processor.py:126-127 and 151-161: the frame cut off the front is
\* returned through _reduce_noise if self.is_speaking, else None is returned.
InFramedFrame(size, quiet) ==
    LET cut == FrameCut(input_buffer + size)
        frame == [len |-> cut, from |-> inFramed.taken, asInput |-> TRUE]
    IN inFramed' = FramingAfter(inFramed, size, cut,
                                IF vadOut' = "frame" THEN ReduceNoise(frame, quiet)
                                ELSE NoFrame)

\* audio_processor.py:166-177: the frame cut off the front is returned as it
\* is; b'' with fewer than FRAME_SIZE_BYTES buffered.
OutFramed(size) ==
    LET cut == IF output_buffer + size >= FRAME_SIZE_BYTES
               THEN FrameCut(output_buffer + size) ELSE 0
        frame == [len |-> cut, from |-> outFramed.taken, asInput |-> TRUE]
    IN outFramed' = FramingAfter(outFramed, size, cut,
                                 IF cut > 0 THEN frame ELSE NoFrame)

\* The two functions of one AudioProcessor, called by the handler's media
\* branch and by _nova_receiver.
FramingNext ==
    \/ \E size \in InChunkSizes : ProcessIncomingShort(size) /\ InFramedShort(size)
    \/ \E size \in InChunkSizes, conf \in Confidences, quiet \in BOOLEAN :
          /\ framesProcessed < MaxFramedIn
          /\ ProcessIncomingFrame(size, conf)
          /\ InFramedFrame(size, quiet)
    \/ \E size \in OutChunkSizes :
          /\ framesOut < MaxFramedOut
          /\ NovaReceiverChunk(size)
          /\ OutFramed(size)

SpecFraming == Init /\ [][FramingNext]_vars

(* C32 (amended): every non-empty buffer returned by process_incoming or   *)
(* process_outgoing is FRAME_SIZE_BYTES long; with fewer bytes buffered    *)
(* nothing is returned and the bytes stay buffered; the frames cut off     *)
(* each buffer are consecutive bytes of its input in arrival order, no     *)
(* byte lost or repeated; process_outgoing returns each cut frame as it is,*)
(* directly after the frame it returned before; process_incoming returns   *)
(* the cut frame as _reduce_noise leaves it, later in the input than the   *)
(* frame it returned before.                                               *)
C32_FramesCutInOrder ==
    /\ inFramed.ret.len \in {0, FRAME_SIZE_BYTES}
    /\ outFramed.ret.len \in {0, FRAME_SIZE_BYTES}
    /\ inFramed.buffered < FRAME_SIZE_BYTES =>
          (inFramed.ret = NoFrame /\ input_buffer = inFramed.buffered)
    /\ outFramed.buffered < FRAME_SIZE_BYTES =>
          (outFramed.ret = NoFrame /\ output_buffer = outFramed.buffered)
    /\ input_buffer = inFramed.arrived - inFramed.taken
    /\ output_buffer = outFramed.arrived - outFramed.taken
    /\ inFramed.taken = framesProcessed * FRAME_SIZE_BYTES
    /\ outFramed.taken = framesOut * FRAME_SIZE_BYTES
    /\ inFramed.ret.len > 0 =>
          /\ inFramed.ret.from + inFramed.ret.len = inFramed.taken
          /\ inFramed.ret.from >= inFramed.prevEnd
    /\ outFramed.ret.len > 0 =>
          /\ outFramed.ret.from + outFramed.ret.len = outFramed.taken
          /\ outFramed.ret.from = outFramed.prevEnd
          /\ outFramed.ret.asInput
    /\ outFramed.buffered >= FRAME_SIZE_BYTES => outFramed.ret.len > 0

C32_Witness ==
    /\ inFramed.ret.len = FRAME_SIZE_BYTES /\ ~inFramed.ret.asInput
    /\ input_buffer = 160 /\ inFramed.prevEnd > 0
    /\ outFramed.ret.len = FRAME_SIZE_BYTES /\ outFramed.prevEnd = FRAME_SIZE_BYTES
    /\ output_buffer = FRAME_SIZE_BYTES

(* C32 as stated: a returned buffer is one frame, and its bytes are the    *)
(* bytes of the input that follow those of the buffer returned before.     *)
C32_ReturnedBytesAreInputBytes ==
    /\ inFramed.ret.len \in {0, FRAME_SIZE_BYTES}
    /\ outFramed.ret.len \in {0, FRAME_SIZE_BYTES}
    /\ inFramed.ret.len > 0 =>
          /\ inFramed.ret.asInput
          /\ inFramed.prevEnd > 0 => inFramed.ret.from = inFramed.prevEnd
    /\ outFramed.ret.len > 0 =>
          /\ outFramed.ret.asInput
          /\ outFramed.prevEnd > 0 => outFramed.ret.from = outFramed.prevEnd

(* C39: when a send of contentEnd or promptEnd fails inside                *)
(* finish_user_turn, the call leaves user_speaking and the audio content   *)
(* name as they were at its entry, so that the next finish_user_turn ends  *)
(* the same block.                                                         *)
C39_FailedFinishKeepsTurn ==
    (call.op = "finish_user_turn" /\ call.outcome = "returned" /\ call.fault) =>
        /\ user_speaking = call.speaking
        /\ current_audio_content_name = call.block

\* The watchdogs created and not finished.
LiveCaps == {t \in CapIds : caps[t].pc = "sleeping"}

(* C37: at most one watchdog of the call is live at any moment, and once   *)
(* the teardown has completed none is live that could still issue a hangup *)
(* request or close the channel.                                           *)
C37_AtMostOneWatchdog ==
    /\ Cardinality(LiveCaps) <= 1
    /\ hwPc = "done" => LiveCaps = {}

(* C38: when the teardown of a call has completed, every model transport   *)
(* opened for the call has been closed, whatever start events arrived and  *)
(* whether or not a start failed.                                          *)
C38_EveryTransportClosed ==
    hwPc = "done" =>
        \A n \in 1..sonic_streamsOpened : n = sonic_closeCall.closed

=============================================================================
